---- MODULE Spec2Model ----
(***************************************************************************)
(* Model of the diff and alignment engine of DocumentCompare               *)
(* (src/samples/document_compare.py), of the comparison that keeps the     *)
(* formatting (src/samples/compare_preserve_formatting.py) and of the      *)
(* window that runs it in a background thread (src/samples/gui.py).        *)
(*                                                                         *)
(* A text is a sequence of one-character strings.  Indices into texts and  *)
(* token lists are 0-based offsets as in the Python source; element k of   *)
(* a Python list is element k+1 of the TLA+ sequence.                      *)
(*                                                                         *)
(* A similarity score is the exact fraction [n, d] of the two integers the *)
(* source divides.  The source compares the correctly rounded double of    *)
(* that fraction with the doubles 0.4 and 0.85 and with other such         *)
(* scores; for the operand sizes of this model (denominators far below     *)
(* 2^26) the comparison of the doubles is the comparison of the fractions. *)
(*                                                                         *)
(* A value computed once and read several times in the source is passed    *)
(* as an operator parameter here, which is why several source functions    *)
(* are split into an operator and a helper taking the computed value.      *)
(***************************************************************************)
EXTENDS Integers, Sequences, FiniteSets, TLC

VARIABLES
    pc,            \* position of the running operation
    move_similarity_threshold, \* module global MOVE_SIMILARITY_THRESHOLD
    min_move_words,            \* module global MIN_MOVE_WORDS
    original_path, modified_path, output_path, \* compare_documents: the
                   \* path arguments, each represented by its extension
    output_format, \* compare_documents: argument, None or a format
    fault,         \* the step of compare_documents whose file access fails
    text1, text2,  \* arguments of a pure text function
    tokens,        \* result of tokenize
    given_segments, \* argument of detect_word_level_moves called alone
    segments,      \* result of diff_texts / detect_word_level_moves
    sim,           \* result of calculate_similarity
    orig_texts, mod_texts,     \* compare_documents: paragraph texts
    orig_tables, mod_tables,   \* compare_documents: extracted tables
    alignments,    \* result of align_paragraphs
    temp_results,  \* compare_documents: first pass
    para_moves,    \* compare_documents: del_idx -> ins_idx pairs
    diff_results,  \* compare_documents: emitted stream
    stats,         \* compare_documents: counters
    result,        \* compare_documents: ComparisonResult
    orig_sections, mod_sections, \* compare_with_full_formatting: the header
                   \* and footer regions of the sections of the two documents
    section_idx,   \* compare_with_full_formatting: loop variable i
    region,        \* compare_with_full_formatting: the region compared next
    printed,       \* compare_with_full_formatting: region messages printed
    compare_btn,   \* gui: state of the Compare button
    status_var,    \* gui: text of the status label
    threads,       \* gui: the background threads started by compare
    after_queue,   \* gui: callbacks scheduled with root.after
    shown,         \* gui: messages shown by messagebox.showerror
    quit_called    \* gui: root.quit has been called

vars == <<pc, move_similarity_threshold, min_move_words, original_path,
          modified_path, output_path, output_format, fault, text1, text2,
          tokens, given_segments, segments, sim, orig_texts, mod_texts,
          orig_tables, mod_tables, alignments, temp_results, para_moves,
          diff_results, stats, result, orig_sections, mod_sections,
          section_idx, region, printed, compare_btn, status_var, threads,
          after_queue, shown, quit_called>>

----------------------------------------------------------------------------
(* Generic helpers *)

Max(x, y) == IF x >= y THEN x ELSE y

RECURSIVE Concat(_)
Concat(ss) == IF ss = <<>> THEN <<>> ELSE Head(ss) \o Concat(Tail(ss))

RECURSIVE SumSeq(_)
SumSeq(ns) == IF ns = <<>> THEN 0 ELSE Head(ns) + SumSeq(Tail(ns))

\* Python slice s[lo:hi] with 0 <= lo <= hi <= len(s).
Slice(s, lo, hi) == SubSeq(s, lo + 1, hi)

\* All sequences over S of length at most n.
SeqsUpTo(S, n) == UNION {[1..k -> S] : k \in 0..n}

----------------------------------------------------------------------------
(* Characters and the str methods the engine uses *)

Whitespace == {" ", "\t", "\n"}

IsSpace(c) == c \in Whitespace

UpperChars == <<"A", "B", "C", "D", "E", "F", "G", "H", "I", "J", "K", "L", "M",
                "N", "O", "P", "Q", "R", "S", "T", "U", "V", "W", "X", "Y", "Z">>

LowerChars == <<"a", "b", "c", "d", "e", "f", "g", "h", "i", "j", "k", "l", "m",
                "n", "o", "p", "q", "r", "s", "t", "u", "v", "w", "x", "y", "z">>

\* str.lower() on one character.
LowerChar(c) ==
    IF \E k \in 1..26 : UpperChars[k] = c
    THEN LowerChars[CHOOSE k \in 1..26 : UpperChars[k] = c]
    ELSE c

\* str.lower()
Lower(s) == [k \in 1..Len(s) |-> LowerChar(s[k])]

RECURSIVE LStrip(_)
LStrip(s) == IF s # <<>> /\ IsSpace(Head(s)) THEN LStrip(Tail(s)) ELSE s

RECURSIVE RStrip(_)
RStrip(s) ==
    IF s # <<>> /\ IsSpace(s[Len(s)]) THEN RStrip(SubSeq(s, 1, Len(s) - 1)) ELSE s

\* str.strip()
Strip(s) == RStrip(LStrip(s))

\* Length of the maximal run of characters of one class starting at offset i
\* (space = TRUE: whitespace, FALSE: non-whitespace).
RECURSIVE RunLen(_, _, _)
RunLen(s, i, space) ==
    IF i < Len(s) /\ IsSpace(s[i + 1]) = space THEN 1 + RunLen(s, i + 1, space) ELSE 0

\* str.split(): the maximal non-whitespace runs, in order.
RECURSIVE SplitFrom(_, _)
SplitFrom(s, i) ==
    IF i >= Len(s) THEN <<>>
    ELSE IF IsSpace(s[i + 1]) THEN SplitFrom(s, i + 1)
    ELSE LET k == RunLen(s, i, FALSE)
         IN  <<Slice(s, i, i + k)>> \o SplitFrom(s, i + k)

Split(s) == SplitFrom(s, 0)

\* len(text.split())
WordCount(s) == Len(Split(s))

\* re.findall(r'\S+|\s+', text) scanning from offset i: at each position the
\* first alternative \S+ is tried greedily, then \s+.
RECURSIVE FindAllFrom(_, _)
FindAllFrom(s, i) ==
    IF i >= Len(s) THEN <<>>
    ELSE LET k == IF RunLen(s, i, FALSE) > 0 THEN RunLen(s, i, FALSE)
                  ELSE RunLen(s, i, TRUE)
         IN  <<Slice(s, i, i + k)>> \o FindAllFrom(s, i + k)

\* A tokenizer that keeps the words only, re.findall(r'\S+', text).
tokenize_WordsOnly(text) == Split(text)

tokenize(text) == FindAllFrom(text, 0)

\* re.sub(r'\s+', ' ', text): every maximal whitespace run becomes one space.
RECURSIVE CollapseFrom(_, _)
CollapseFrom(s, i) ==
    IF i >= Len(s) THEN <<>>
    ELSE IF IsSpace(s[i + 1])
         THEN <<" ">> \o CollapseFrom(s, i + RunLen(s, i, TRUE))
         ELSE <<s[i + 1]>> \o CollapseFrom(s, i + 1)

normalize_text_for_move(text) == CollapseFrom(Strip(Lower(text)), 0)

\* sep.join(parts)
RECURSIVE Join(_, _)
Join(sep, parts) ==
    IF parts = <<>> THEN <<>>
    ELSE IF Len(parts) = 1 THEN parts[1]
    ELSE parts[1] \o sep \o Join(sep, Tail(parts))

----------------------------------------------------------------------------
(* difflib.SequenceMatcher with isjunk = None.  The autojunk heuristic only *)
(* acts on a second sequence of 200 or more elements, beyond every text of  *)
(* this model, so both uses of the source have no junk.                     *)

\* Length of the common run of a from offset i (below ahi) and b from j (below bhi).
RECURSIVE MatchLen(_, _, _, _, _, _)
MatchLen(a, b, i, ahi, j, bhi) ==
    IF i < ahi /\ j < bhi /\ a[i + 1] = b[j + 1]
    THEN 1 + MatchLen(a, b, i + 1, ahi, j + 1, bhi)
    ELSE 0

\* The offsets <<i, j>> in the window at which a and b hold the same element.
MatchStarts(a, b, alo, ahi, blo, bhi) ==
    {p \in (alo..(ahi - 1)) \X (blo..(bhi - 1)) : a[p[1] + 1] = b[p[2] + 1]}

\* Of the starts, the one of the longest block; of those the earliest in a;
\* of those the earliest in b.  len[p] is the length of the block at p.
BestOf(Starts, len) ==
    LET best == CHOOSE p \in Starts :
                    \A q \in Starts :
                       \/ len[p] > len[q]
                       \/ len[p] = len[q] /\ p[1] < q[1]
                       \/ len[p] = len[q] /\ p[1] = q[1] /\ p[2] <= q[2]
    IN  <<best[1], best[2], len[best]>>

PickLongest(Starts, a, b, alo, ahi, blo, bhi) ==
    IF Starts = {} THEN <<alo, blo, 0>>
    ELSE BestOf(Starts, [p \in Starts |-> MatchLen(a, b, p[1], ahi, p[2], bhi)])

\* find_longest_match(alo, ahi, blo, bhi): (i, j, k), or (alo, blo, 0) if
\* the windows share no element.
find_longest_match(a, b, alo, ahi, blo, bhi) ==
    PickLongest(MatchStarts(a, b, alo, ahi, blo, bhi), a, b, alo, ahi, blo, bhi)

\* The recursion of get_matching_blocks on a window, in sorted order:
\* the blocks left of the longest match m, m, the blocks right of it.
RECURSIVE BlocksIn(_, _, _, _, _, _)
RECURSIVE BlocksAround(_, _, _, _, _, _, _)
BlocksAround(a, b, alo, ahi, blo, bhi, m) ==
    IF m[3] = 0 THEN <<>>
    ELSE (IF alo < m[1] /\ blo < m[2] THEN BlocksIn(a, b, alo, m[1], blo, m[2]) ELSE <<>>)
         \o <<m>>
         \o (IF m[1] + m[3] < ahi /\ m[2] + m[3] < bhi
             THEN BlocksIn(a, b, m[1] + m[3], ahi, m[2] + m[3], bhi) ELSE <<>>)

BlocksIn(a, b, alo, ahi, blo, bhi) ==
    BlocksAround(a, b, alo, ahi, blo, bhi, find_longest_match(a, b, alo, ahi, blo, bhi))

\* Adjacent equal blocks are collapsed into one.
RECURSIVE CollapseBlocks(_)
CollapseBlocks(bs) ==
    IF Len(bs) < 2 THEN bs
    ELSE IF bs[1][1] + bs[1][3] = bs[2][1] /\ bs[1][2] + bs[1][3] = bs[2][2]
         THEN CollapseBlocks(<<<<bs[1][1], bs[1][2], bs[1][3] + bs[2][3]>>>> \o Tail(Tail(bs)))
         ELSE <<bs[1]>> \o CollapseBlocks(Tail(bs))

get_matching_blocks(a, b) ==
    CollapseBlocks(BlocksIn(a, b, 0, Len(a), 0, Len(b))) \o <<<<Len(a), Len(b), 0>>>>

\* get_opcodes: the loop over the matching blocks, (i, j) the position reached.
RECURSIVE OpcodesFrom(_, _, _)
OpcodesFrom(blocks, i, j) ==
    IF blocks = <<>> THEN <<>>
    ELSE LET ai == blocks[1][1]
             bj == blocks[1][2]
             size == blocks[1][3]
             tag == IF i < ai /\ j < bj THEN "replace"
                    ELSE IF i < ai THEN "delete"
                    ELSE IF j < bj THEN "insert"
                    ELSE ""
         IN  (IF tag # "" THEN <<<<tag, i, ai, j, bj>>>> ELSE <<>>)
             \o (IF size > 0 THEN <<<<"equal", ai, ai + size, bj, bj + size>>>> ELSE <<>>)
             \o OpcodesFrom(Tail(blocks), ai + size, bj + size)

get_opcodes(a, b) == OpcodesFrom(get_matching_blocks(a, b), 0, 0)

\* 2.0 * matches / length, 1.0 when length is 0.
RatioOf(blocks, length) ==
    IF length = 0 THEN [n |-> 1, d |-> 1]
    ELSE [n |-> 2 * SumSeq([k \in 1..Len(blocks) |-> blocks[k][3]]), d |-> length]

ratio(a, b) == RatioOf(get_matching_blocks(a, b), Len(a) + Len(b))

----------------------------------------------------------------------------
(* Scores *)

GE(r, s) == r.n * s.d >= s.n * r.d

GT(r, s) == r.n * s.d > s.n * r.d

\* max(r, s) of two scores
MaxScore(r, s) == IF GE(r, s) THEN r ELSE s

One == [n |-> 1, d |-> 1]

Zero == [n |-> 0, d |-> 1]

MOVE_SIMILARITY_THRESHOLD == [n |-> 17, d |-> 20]

\* A paragraph threshold of 0.25.
PARAGRAPH_SIMILARITY_THRESHOLD_Loose == [n |-> 1, d |-> 4]

PARAGRAPH_SIMILARITY_THRESHOLD == [n |-> 2, d |-> 5]

MIN_MOVE_WORDS == 3

SetOf(s) == {s[k] : k \in 1..Len(s)}

\* Word-based Jaccard similarity of two word sets.
Jaccard(words1, words2) ==
    IF words1 # {} /\ words2 # {}
    THEN [n |-> Cardinality(words1 \cap words2), d |-> Cardinality(words1 \cup words2)]
    ELSE Zero

\* A scorer that compares the stripped texts without lower().
StrippedSimilarity_CaseSensitive(s1, s2) ==
    IF s1 = <<>> /\ s2 = <<>> THEN One
    ELSE IF s1 = <<>> \/ s2 = <<>> THEN Zero
    ELSE MaxScore(Jaccard(SetOf(Split(s1)), SetOf(Split(s2))), ratio(s1, s2))

\* calculate_similarity from the strip() calls on.
StrippedSimilarity(s1, s2) ==
    IF s1 = <<>> /\ s2 = <<>> THEN One
    ELSE IF s1 = <<>> \/ s2 = <<>> THEN Zero
    ELSE MaxScore(Jaccard(SetOf(Split(Lower(s1))), SetOf(Split(Lower(s2)))),
                  ratio(Lower(s1), Lower(s2)))

\* A scorer without the test for identical texts.
calculate_similarity_NoIdentity(t1, t2) ==
    IF t1 = <<>> \/ t2 = <<>> THEN Zero
    ELSE StrippedSimilarity(Strip(t1), Strip(t2))

calculate_similarity(t1, t2) ==
    IF t1 = t2 THEN One
    ELSE IF t1 = <<>> \/ t2 = <<>> THEN Zero
    ELSE StrippedSimilarity(Strip(t1), Strip(t2))

----------------------------------------------------------------------------
(* Word differ *)

Seg(text, kind) == [text |-> text, kind |-> kind]

\* if text: result.append((text, kind))
SegIf(text, kind) == IF text # <<>> THEN <<Seg(text, kind)>> ELSE <<>>

\* An opcode loop whose replace branch appends the deleted text only.
OpcodeSegments_ReplaceDropsInsert(op, orig_words, mod_words) ==
    IF op[1] = "equal" THEN SegIf(Concat(Slice(orig_words, op[2], op[3])), "equal")
    ELSE IF op[1] = "insert" THEN SegIf(Concat(Slice(mod_words, op[4], op[5])), "insert")
    ELSE SegIf(Concat(Slice(orig_words, op[2], op[3])), "delete")

\* An opcode loop whose replace branch appends the inserted text first.
OpcodeSegments_InsertFirst(op, orig_words, mod_words) ==
    IF op[1] = "equal" THEN SegIf(Concat(Slice(orig_words, op[2], op[3])), "equal")
    ELSE IF op[1] = "delete" THEN SegIf(Concat(Slice(orig_words, op[2], op[3])), "delete")
    ELSE IF op[1] = "insert" THEN SegIf(Concat(Slice(mod_words, op[4], op[5])), "insert")
    ELSE SegIf(Concat(Slice(mod_words, op[4], op[5])), "insert")
         \o SegIf(Concat(Slice(orig_words, op[2], op[3])), "delete")

\* The segments one opcode (tag, i1, i2, j1, j2) contributes.
OpcodeSegments(op, orig_words, mod_words) ==
    IF op[1] = "equal" THEN SegIf(Concat(Slice(orig_words, op[2], op[3])), "equal")
    ELSE IF op[1] = "delete" THEN SegIf(Concat(Slice(orig_words, op[2], op[3])), "delete")
    ELSE IF op[1] = "insert" THEN SegIf(Concat(Slice(mod_words, op[4], op[5])), "insert")
    ELSE SegIf(Concat(Slice(orig_words, op[2], op[3])), "delete")
         \o SegIf(Concat(Slice(mod_words, op[4], op[5])), "insert")

\* The loop over the opcodes.
SegmentsOf(ops, orig_words, mod_words) ==
    Concat([k \in 1..Len(ops) |-> OpcodeSegments(ops[k], orig_words, mod_words)])

DiffTokens(orig_words, mod_words) ==
    SegmentsOf(get_opcodes(orig_words, mod_words), orig_words, mod_words)

diff_texts(original_text, modified_text) ==
    DiffTokens(tokenize(original_text), tokenize(modified_text))

----------------------------------------------------------------------------
(* Move detector *)

\* A candidate of the move detector: its index in the list it comes from
\* and its text.
Cand(idx, text) == [idx |-> idx, text |-> text]

\* The entries of kind `kind` with at least MIN_MOVE_WORDS words, in order.
\* The function reads the module global at the time of the call.
RECURSIVE CandidatesFrom(_, _, _)
CandidatesFrom(diff_segments, i, kind) ==
    IF i >= Len(diff_segments) THEN <<>>
    ELSE (IF diff_segments[i + 1].kind = kind
             /\ WordCount(diff_segments[i + 1].text) >= min_move_words
          THEN <<Cand(i, diff_segments[i + 1].text)>> ELSE <<>>)
         \o CandidatesFrom(diff_segments, i + 1, kind)

\* sorted(deletions, key = word count, reverse = True): descending, and
\* entries of equal word count keep their order.
RECURSIVE InsertDesc(_, _)
InsertDesc(x, sorted) ==
    IF sorted = <<>> THEN <<x>>
    ELSE IF WordCount(Head(sorted).text) >= WordCount(x.text)
         THEN <<Head(sorted)>> \o InsertDesc(x, Tail(sorted))
         ELSE <<x>> \o sorted

RECURSIVE SortDesc(_)
SortDesc(cands) ==
    IF cands = <<>> THEN <<>>
    ELSE InsertDesc(cands[Len(cands)], SortDesc(SubSeq(cands, 1, Len(cands) - 1)))

\* The inner loop over the insertions for one deletion: the index of the
\* best unused insertion, -1 for None.  BetterMatch is the loop body once
\* the similarity of the first insertion is computed.
RECURSIVE BestMatchFrom(_, _, _, _, _)
RECURSIVE BetterMatch(_, _, _, _, _, _)
\* A loop body that replaces the best insertion by a later one of the same
\* similarity.
BetterMatch_LatestOnTies(del_norm, insertions, used_insertions, best_match, best_similarity, similarity) ==
    IF GE(similarity, move_similarity_threshold) /\ GE(similarity, best_similarity)
    THEN BestMatchFrom(del_norm, Tail(insertions), used_insertions,
                       Head(insertions).idx, similarity)
    ELSE BestMatchFrom(del_norm, Tail(insertions), used_insertions,
                       best_match, best_similarity)

BetterMatch(del_norm, insertions, used_insertions, best_match, best_similarity, similarity) ==
    IF GE(similarity, move_similarity_threshold) /\ GT(similarity, best_similarity)
    THEN BestMatchFrom(del_norm, Tail(insertions), used_insertions,
                       Head(insertions).idx, similarity)
    ELSE BestMatchFrom(del_norm, Tail(insertions), used_insertions,
                       best_match, best_similarity)

BestMatchFrom(del_norm, insertions, used_insertions, best_match, best_similarity) ==
    IF insertions = <<>> THEN best_match
    ELSE IF Head(insertions).idx \in used_insertions
    THEN BestMatchFrom(del_norm, Tail(insertions), used_insertions,
                       best_match, best_similarity)
    ELSE BetterMatch(del_norm, insertions, used_insertions, best_match, best_similarity,
                     calculate_similarity(del_norm,
                                          normalize_text_for_move(Head(insertions).text)))

\* if best_match is not None: moves[del_idx] = best_match
AddPair(moves, del_idx, best_match) ==
    IF best_match # -1 THEN moves \cup {<<del_idx, best_match>>} ELSE moves

\* The outer loop over the sorted deletions; moves is the set of pairs
\* <<del_idx, ins_idx>>, used_insertions the set of its second components.
RECURSIVE GreedyPairs(_, _, _)
GreedyPairs(sorted_deletions, insertions, moves) ==
    IF sorted_deletions = <<>> THEN moves
    ELSE GreedyPairs(Tail(sorted_deletions), insertions,
             AddPair(moves, Head(sorted_deletions).idx,
                     BestMatchFrom(normalize_text_for_move(Head(sorted_deletions).text),
                                   insertions, {p[2] : p \in moves}, -1, Zero)))

\* if not deletions or not insertions: no pair
PairCandidates(deletions, insertions) ==
    IF deletions = <<>> \/ insertions = <<>> THEN {}
    ELSE GreedyPairs(SortDesc(deletions), insertions, {})

\* The pairing detect_word_level_moves computes for a segment list.
WordMoves(diff_segments) ==
    PairCandidates(CandidatesFrom(diff_segments, 0, "delete"),
                   CandidatesFrom(diff_segments, 0, "insert"))

\* A relabelling that marks every delete and insert once a pair is made.
Relabel_EveryChange(diff_segments, moves) ==
    IF moves = {} THEN diff_segments
    ELSE [k \in 1..Len(diff_segments) |->
             IF diff_segments[k].kind = "delete"
             THEN Seg(diff_segments[k].text, "move_source")
             ELSE IF diff_segments[k].kind = "insert"
             THEN Seg(diff_segments[k].text, "move_dest")
             ELSE diff_segments[k]]

\* The new segment list with move markers.
Relabel(diff_segments, moves) ==
    IF moves = {} THEN diff_segments
    ELSE [k \in 1..Len(diff_segments) |->
             IF \E p \in moves : p[1] = k - 1
             THEN Seg(diff_segments[k].text, "move_source")
             ELSE IF \E p \in moves : p[2] = k - 1
             THEN Seg(diff_segments[k].text, "move_dest")
             ELSE diff_segments[k]]

detect_word_level_moves(diff_segments) == Relabel(diff_segments, WordMoves(diff_segments))

----------------------------------------------------------------------------
(* Paragraph aligner and row aligner *)

Reverse(s) == [k \in 1..Len(s) |-> s[Len(s) + 1 - k]]

\* similar[i, j]: calculate_similarity(orig[i-1], mod[j-1]) >= 0.4
SimilarTable(orig, mod) ==
    [i \in 1..Len(orig), j \in 1..Len(mod) |->
        GE(calculate_similarity(orig[i], mod[j]), PARAGRAPH_SIMILARITY_THRESHOLD)]

\* A table whose dissimilar cells copy the cell above only.
LcsTable_AboveOnly(similar, m, n) ==
    LET lcs[i \in 0..m, j \in 0..n] ==
            IF i = 0 \/ j = 0 THEN 0
            ELSE IF similar[i, j] THEN lcs[i - 1, j - 1] + 1
            ELSE lcs[i - 1, j]
    IN  lcs

\* The LCS table.
LcsTable(similar, m, n) ==
    LET lcs[i \in 0..m, j \in 0..n] ==
            IF i = 0 \/ j = 0 THEN 0
            ELSE IF similar[i, j] THEN lcs[i - 1, j - 1] + 1
            ELSE Max(lcs[i - 1, j], lcs[i, j - 1])
    IN  lcs

\* The backtrack loop from cell (i, j): the records in the order appended.
RECURSIVE BacktrackFrom(_, _, _, _)
\* A backtrack that consumes the original paragraph when the two cells tie.
BacktrackFrom_DeleteOnTies(similar, lcs, i, j) ==
    IF ~(i > 0 \/ j > 0) THEN <<>>
    ELSE IF i > 0 /\ j > 0 /\ similar[i, j]
         THEN <<<<i - 1, j - 1, "match">>>> \o BacktrackFrom(similar, lcs, i - 1, j - 1)
    ELSE IF j > 0 /\ (i = 0 \/ lcs[i, j - 1] > lcs[i - 1, j])
         THEN <<<<-1, j - 1, "insert">>>> \o BacktrackFrom(similar, lcs, i, j - 1)
    ELSE <<<<i - 1, -1, "delete">>>> \o BacktrackFrom(similar, lcs, i - 1, j)

BacktrackFrom(similar, lcs, i, j) ==
    IF ~(i > 0 \/ j > 0) THEN <<>>
    ELSE IF i > 0 /\ j > 0 /\ similar[i, j]
         THEN <<<<i - 1, j - 1, "match">>>> \o BacktrackFrom(similar, lcs, i - 1, j - 1)
    ELSE IF j > 0 /\ (i = 0 \/ lcs[i, j - 1] >= lcs[i - 1, j])
         THEN <<<<-1, j - 1, "insert">>>> \o BacktrackFrom(similar, lcs, i, j - 1)
    ELSE <<<<i - 1, -1, "delete">>>> \o BacktrackFrom(similar, lcs, i - 1, j)

\* An aligner that returns the records in the order the backtrack appends them.
AlignWith_NoReverse(similar, m, n) ==
    BacktrackFrom(similar, LcsTable(similar, m, n), m, n)

\* Table, backtrack and reverse, given the similarity of every pair.
AlignWith(similar, m, n) ==
    Reverse(BacktrackFrom(similar, LcsTable(similar, m, n), m, n))

align_paragraphs(orig, mod) == AlignWith(SimilarTable(orig, mod), Len(orig), Len(mod))

CellSep == <<" ", "|", " ">>

get_row_text(row) == Join(CellSep, row)

compare_table_rows(orig_rows, mod_rows) ==
    AlignWith(SimilarTable([i \in 1..Len(orig_rows) |-> get_row_text(orig_rows[i])],
                           [j \in 1..Len(mod_rows) |-> get_row_text(mod_rows[j])]),
              Len(orig_rows), Len(mod_rows))

----------------------------------------------------------------------------
(* Statistics *)

ZeroStats == [insertions |-> 0, deletions |-> 0, moves |-> 0, unchanged |-> 0]

\* A counter chain that counts the words of a move at its source only.
AddWords_MoveSourceOnly(st, kind, words) ==
    IF kind = "insert" THEN [st EXCEPT !.insertions = @ + words]
    ELSE IF kind = "delete" THEN [st EXCEPT !.deletions = @ + words]
    ELSE IF kind = "move_source" THEN [st EXCEPT !.moves = @ + words]
    ELSE IF kind = "move_dest" THEN st
    ELSE [st EXCEPT !.unchanged = @ + words]

\* The if/elif chain that adds `words` to the counter of a segment kind.
AddWords(st, kind, words) ==
    IF kind = "insert" THEN [st EXCEPT !.insertions = @ + words]
    ELSE IF kind = "delete" THEN [st EXCEPT !.deletions = @ + words]
    ELSE IF kind \in {"move_source", "move_dest"} THEN [st EXCEPT !.moves = @ + words]
    ELSE [st EXCEPT !.unchanged = @ + words]

\* for text, seg_type in segs: count the words of the segment
RECURSIVE CountSegments(_, _)
CountSegments(st, segs) ==
    IF segs = <<>> THEN st
    ELSE CountSegments(AddWords(st, Head(segs).kind, WordCount(Head(segs).text)), Tail(segs))

----------------------------------------------------------------------------
(* Tables.  The accumulator of a row is [segs: row_segments, stats: stats], *)
(* the accumulator of a stream is [results, stats].                         *)

\* An entry of the emitted stream.
Entry(segs, is_table_row) == [segments |-> segs, is_table_row |-> is_table_row]

\* if col_idx < max_cols - 1: row_segments.append((' | ', 'equal'))
WithSeparator(acc, col_idx, max_cols) ==
    IF col_idx < max_cols - 1
    THEN [acc EXCEPT !.segs = @ \o <<Seg(CellSep, "equal")>>]
    ELSE acc

\* A changed cell: every segment of its diff is counted, then appended.
ChangedCell(acc, cell_diff) ==
    [segs |-> acc.segs \o cell_diff, stats |-> CountSegments(acc.stats, cell_diff)]

\* A cell present on both sides.
BothCells(acc, orig_cell, mod_cell) ==
    IF Strip(orig_cell) # Strip(mod_cell)
    THEN ChangedCell(acc, detect_word_level_moves(diff_texts(orig_cell, mod_cell)))
    ELSE [segs |-> acc.segs \o <<Seg(mod_cell, "equal")>>,
          stats |-> AddWords(acc.stats, "equal", WordCount(mod_cell))]

\* The body of the loop over the columns of a matched row pair.
CellStep(acc, orig_row, mod_row, col_idx, max_cols) ==
    IF col_idx < Len(orig_row) /\ col_idx < Len(mod_row)
    THEN WithSeparator(BothCells(acc, orig_row[col_idx + 1], mod_row[col_idx + 1]),
                       col_idx, max_cols)
    ELSE IF col_idx < Len(mod_row)
    THEN WithSeparator([segs |-> acc.segs \o <<Seg(mod_row[col_idx + 1], "insert")>>,
                        stats |-> AddWords(acc.stats, "insert",
                                           WordCount(mod_row[col_idx + 1]))],
                       col_idx, max_cols)
    ELSE acc

RECURSIVE MatchedRowFrom(_, _, _, _)
MatchedRowFrom(orig_row, mod_row, col_idx, acc) ==
    IF col_idx >= Max(Len(orig_row), Len(mod_row)) THEN acc
    ELSE MatchedRowFrom(orig_row, mod_row, col_idx + 1,
             CellStep(acc, orig_row, mod_row, col_idx, Max(Len(orig_row), Len(mod_row))))

\* results.append({'segments': row_segments, ...}) for a matched row
AppendRow(acc, row) ==
    [results |-> Append(acc.results, Entry(row.segs, TRUE)), stats |-> row.stats]

\* A whole-row segment of kind `kind`, counted in its counter.
WholeRow(acc, row_text, kind) ==
    [results |-> Append(acc.results, Entry(<<Seg(row_text, kind)>>, TRUE)),
     stats |-> AddWords(acc.stats, kind, WordCount(row_text))]

\* The body of the loop over the row alignments.
RowStep(acc, orig_table, mod_table, rec) ==
    IF rec[3] = "match" /\ rec[1] >= 0 /\ rec[2] >= 0
    THEN AppendRow(acc, MatchedRowFrom(orig_table[rec[1] + 1], mod_table[rec[2] + 1], 0,
                                       [segs |-> <<>>, stats |-> acc.stats]))
    ELSE IF rec[3] = "insert" /\ rec[2] >= 0
    THEN WholeRow(acc, get_row_text(mod_table[rec[2] + 1]), "insert")
    ELSE IF rec[3] = "delete" /\ rec[1] >= 0
    THEN WholeRow(acc, get_row_text(orig_table[rec[1] + 1]), "delete")
    ELSE acc

RECURSIVE DiffRowsFrom(_, _, _, _)
DiffRowsFrom(orig_table, mod_table, row_alignments, acc) ==
    IF row_alignments = <<>> THEN acc
    ELSE DiffRowsFrom(orig_table, mod_table, Tail(row_alignments),
                      RowStep(acc, orig_table, mod_table, Head(row_alignments)))

\* diff_table returns the row entries and updates stats in place: [results, stats].
diff_table(orig_table, mod_table, st) ==
    DiffRowsFrom(orig_table, mod_table, compare_table_rows(orig_table, mod_table),
                 [results |-> <<>>, stats |-> st])

\* Every row of a table present on one side only, as one whole-row segment.
RECURSIVE WholeRowsFrom(_, _, _)
WholeRowsFrom(rows, kind, acc) ==
    IF rows = <<>> THEN acc
    ELSE WholeRowsFrom(Tail(rows), kind, WholeRow(acc, get_row_text(Head(rows)), kind))

\* diff_results.extend(table_results); stats is the one diff_table updated
ExtendWith(acc, r) == [results |-> acc.results \o r.results, stats |-> r.stats]

\* The loop over the table positions from t_idx on.
RECURSIVE TablesFrom(_, _, _, _)
TablesFrom(ot, mt, t_idx, acc) ==
    IF t_idx >= Max(Len(ot), Len(mt)) THEN acc
    ELSE IF t_idx < Len(ot) /\ t_idx < Len(mt)
    THEN TablesFrom(ot, mt, t_idx + 1,
                    ExtendWith(acc, diff_table(ot[t_idx + 1], mt[t_idx + 1], acc.stats)))
    ELSE IF t_idx < Len(mt)
    THEN TablesFrom(ot, mt, t_idx + 1, WholeRowsFrom(mt[t_idx + 1], "insert", acc))
    ELSE TablesFrom(ot, mt, t_idx + 1, WholeRowsFrom(ot[t_idx + 1], "delete", acc))

----------------------------------------------------------------------------
(* compare_documents: the passes over the body paragraphs.  The is_heading *)
(* flag is copied from the input to the stream and read by no pass; it is  *)
(* left out.                                                               *)

Temp(segs, align_type, text) == [segments |-> segs, align_type |-> align_type, text |-> text]

\* Matched paragraphs whose unchanged branch emits the original text.
MatchSegments_EmitOrig(orig_text, mod_text) ==
    IF Strip(orig_text) # Strip(mod_text)
    THEN detect_word_level_moves(diff_texts(orig_text, mod_text))
    ELSE <<Seg(orig_text, "equal")>>

\* The segments of a matched pair of paragraphs.
MatchSegments(orig_text, mod_text) ==
    IF Strip(orig_text) # Strip(mod_text)
    THEN detect_word_level_moves(diff_texts(orig_text, mod_text))
    ELSE <<Seg(mod_text, "equal")>>

\* An inserted or deleted paragraph is held aside unless it is blank.
HeldAside(text, kind) ==
    IF Strip(text) # <<>> THEN <<Temp(<<Seg(text, kind)>>, kind, text)>> ELSE <<>>

\* First pass, one alignment record: the temp results it appends.
TempOf(ot, mt, rec) ==
    IF rec[3] = "match"
    THEN <<Temp(MatchSegments(ot[rec[1] + 1], mt[rec[2] + 1]), "match", <<>>)>>
    ELSE IF rec[3] = "insert" THEN HeldAside(mt[rec[2] + 1], "insert")
    ELSE HeldAside(ot[rec[1] + 1], "delete")

RECURSIVE FirstPassFrom(_, _, _)
FirstPassFrom(ot, mt, aligns) ==
    IF aligns = <<>> THEN <<>>
    ELSE TempOf(ot, mt, Head(aligns)) \o FirstPassFrom(ot, mt, Tail(aligns))

\* The held-aside entries of one align_type with at least MIN_MOVE_WORDS words.
RECURSIVE HeldAsideFrom(_, _, _)
HeldAsideFrom(temps, i, align_type) ==
    IF i >= Len(temps) THEN <<>>
    ELSE (IF temps[i + 1].align_type = align_type
             /\ WordCount(temps[i + 1].text) >= min_move_words
          THEN <<Cand(i, temps[i + 1].text)>> ELSE <<>>)
         \o HeldAsideFrom(temps, i + 1, align_type)

\* Second pass: the paragraph-level pairing para_moves.
ParaMoves(temps) ==
    GreedyPairs(SortDesc(HeldAsideFrom(temps, 0, "delete")),
                HeldAsideFrom(temps, 0, "insert"), {})

\* A relabelling that marks the move sources only.
FinalSegments_NoDest(temps, moves, i) ==
    IF \E p \in moves : p[1] = i THEN <<Seg(temps[i + 1].text, "move_source")>>
    ELSE temps[i + 1].segments

\* The segments of temp result i (0-based) after the paragraph-level moves.
FinalSegments(temps, moves, i) ==
    IF \E p \in moves : p[1] = i THEN <<Seg(temps[i + 1].text, "move_source")>>
    ELSE IF \E p \in moves : p[2] = i THEN <<Seg(temps[i + 1].text, "move_dest")>>
    ELSE temps[i + 1].segments

\* Count the segments of one result and append it to the stream.
EmitEntry(acc, segs) ==
    [results |-> Append(acc.results, Entry(segs, FALSE)),
     stats |-> CountSegments(acc.stats, segs)]

\* Apply the moves, count and emit from temp result i on.
RECURSIVE EmitFrom(_, _, _, _)
EmitFrom(temps, moves, i, acc) ==
    IF i >= Len(temps) THEN acc
    ELSE EmitFrom(temps, moves, i + 1, EmitEntry(acc, FinalSegments(temps, moves, i)))

----------------------------------------------------------------------------
(* compare_preserve_formatting.py.  A paragraph is its text, a table cell   *)
(* is the text of its one paragraph.  tokenize, diff_texts,                 *)
(* calculate_similarity, normalize_text_for_move, detect_word_level_moves   *)
(* and align_paragraphs of this file have the code of their namesakes in    *)
(* document_compare.py (align_paragraphs reads the text of each paragraph   *)
(* first), and its MOVE_SIMILARITY_THRESHOLD and MIN_MOVE_WORDS have the    *)
(* same values; the operators above stand for them.  The formatting         *)
(* applied to the output document is left out.                              *)

\* First pass of compare_paragraphs_list: the non-blank paragraphs of the
\* records of one align_type, as candidates (paragraph index, text).
RECURSIVE MoveCandidatesFrom(_, _, _, _)
MoveCandidatesFrom(paras, aligns, align_type, side) ==
    IF aligns = <<>> THEN <<>>
    ELSE (IF Head(aligns)[3] = align_type /\ Head(aligns)[side] >= 0
             /\ Strip(paras[Head(aligns)[side] + 1]) # <<>>
          THEN <<Cand(Head(aligns)[side], paras[Head(aligns)[side] + 1])>>
          ELSE <<>>)
         \o MoveCandidatesFrom(paras, Tail(aligns), align_type, side)

HasMoveWords(cand) == WordCount(cand.text) >= min_move_words

\* detect_moves: the deletions of at least MIN_MOVE_WORDS words, longest
\* first, each take the best unused insertion of at least MIN_MOVE_WORDS
\* words; pairs <<orig_idx, mod_idx>>.
detect_moves(deletions, insertions) ==
    GreedyPairs(SortDesc(SelectSeq(deletions, HasMoveWords)),
                SelectSeq(insertions, HasMoveWords), {})

\* Second pass, a matched pair: the diff is counted when the stripped texts
\* differ, the modified text is counted as unchanged otherwise.
MatchedParagraph(st, orig_text, mod_text) ==
    IF Strip(orig_text) # Strip(mod_text) /\ (Strip(orig_text) # <<>> \/ Strip(mod_text) # <<>>)
    THEN CountSegments(st, detect_word_level_moves(diff_texts(orig_text, mod_text)))
    ELSE AddWords(st, "equal", WordCount(mod_text))

\* Second pass, an inserted or deleted paragraph: counted unless blank, as
\* a move when paired.
UnmatchedParagraph(st, text, is_move, kind) ==
    IF Strip(text) = <<>> THEN st
    ELSE IF is_move THEN AddWords(st, "move_dest", WordCount(text))
    ELSE AddWords(st, kind, WordCount(text))

\* Second pass, one alignment record.
ParagraphStep(st, orig_paras, out_paras, rec, moves) ==
    IF rec[3] = "match" /\ rec[2] >= 0 /\ rec[1] >= 0
    THEN MatchedParagraph(st, orig_paras[rec[1] + 1], out_paras[rec[2] + 1])
    ELSE IF rec[3] = "insert" /\ rec[2] >= 0
    THEN UnmatchedParagraph(st, out_paras[rec[2] + 1],
                            \E p \in moves : p[2] = rec[2], "insert")
    ELSE IF rec[3] = "delete" /\ rec[1] >= 0
    THEN UnmatchedParagraph(st, orig_paras[rec[1] + 1],
                            \E p \in moves : p[1] = rec[1], "delete")
    ELSE st

RECURSIVE SecondPassFrom(_, _, _, _, _)
SecondPassFrom(st, orig_paras, out_paras, aligns, moves) ==
    IF aligns = <<>> THEN st
    ELSE SecondPassFrom(ParagraphStep(st, orig_paras, out_paras, Head(aligns), moves),
                        orig_paras, out_paras, Tail(aligns), moves)

\* The two passes, given the alignment.
PassesOver(st, orig_paras, out_paras, aligns) ==
    SecondPassFrom(st, orig_paras, out_paras, aligns,
                   detect_moves(MoveCandidatesFrom(orig_paras, aligns, "delete", 1),
                                MoveCandidatesFrom(out_paras, aligns, "insert", 2)))

\* compare_paragraphs_list: the counters after the call.
compare_paragraphs_list(orig_paras, out_paras, st) ==
    IF orig_paras = <<>> /\ out_paras = <<>> THEN st
    ELSE PassesOver(st, orig_paras, out_paras, align_paragraphs(orig_paras, out_paras))

\* compare_cell_content for a cell of one paragraph.
compare_cell_content(orig_text, mod_text, st) ==
    IF Strip(orig_text) # Strip(mod_text)
    THEN CountSegments(st, detect_word_level_moves(diff_texts(orig_text, mod_text)))
    ELSE AddWords(st, "equal", WordCount(mod_text))

mark_cell_as_inserted(cell, st) ==
    IF Strip(cell) # <<>> THEN AddWords(st, "insert", WordCount(cell)) ELSE st

RECURSIVE InsertedCellsFrom(_, _)
InsertedCellsFrom(cells, st) ==
    IF cells = <<>> THEN st
    ELSE InsertedCellsFrom(Tail(cells), mark_cell_as_inserted(Head(cells), st))

\* stats['deletions'] += len(cell.text.split()) for every cell of a deleted row
RECURSIVE DeletedCellsFrom(_, _)
DeletedCellsFrom(cells, st) ==
    IF cells = <<>> THEN st
    ELSE DeletedCellsFrom(Tail(cells), AddWords(st, "delete", WordCount(Head(cells))))

\* The body of the loop over the columns of a matched row pair.
ColumnStep(st, orig_row, out_row, col_idx) ==
    IF col_idx < Len(orig_row) /\ col_idx < Len(out_row)
    THEN (IF Strip(orig_row[col_idx + 1]) # Strip(out_row[col_idx + 1])
          THEN compare_cell_content(orig_row[col_idx + 1], out_row[col_idx + 1], st)
          ELSE AddWords(st, "equal", WordCount(out_row[col_idx + 1])))
    ELSE IF col_idx < Len(out_row)
    THEN mark_cell_as_inserted(out_row[col_idx + 1], st)
    ELSE st

RECURSIVE ColumnsFrom(_, _, _, _)
ColumnsFrom(st, orig_row, out_row, col_idx) ==
    IF col_idx >= Max(Len(orig_row), Len(out_row)) THEN st
    ELSE ColumnsFrom(ColumnStep(st, orig_row, out_row, col_idx), orig_row, out_row,
                     col_idx + 1)

\* The body of the loop over the row alignments of compare_table_cells.
TableRowStep(st, orig_table, out_table, rec) ==
    IF rec[3] = "match" /\ rec[1] >= 0 /\ rec[2] >= 0
    THEN ColumnsFrom(st, orig_table[rec[1] + 1], out_table[rec[2] + 1], 0)
    ELSE IF rec[3] = "insert" /\ rec[2] >= 0
    THEN InsertedCellsFrom(out_table[rec[2] + 1], st)
    ELSE IF rec[3] = "delete" /\ rec[1] >= 0
    THEN DeletedCellsFrom(orig_table[rec[1] + 1], st)
    ELSE st

RECURSIVE TableRowsFrom(_, _, _, _)
TableRowsFrom(st, orig_table, out_table, row_alignments) ==
    IF row_alignments = <<>> THEN st
    ELSE TableRowsFrom(TableRowStep(st, orig_table, out_table, Head(row_alignments)),
                       orig_table, out_table, Tail(row_alignments))

\* align_table_rows: the LCS alignment of the rows by their joined texts.
align_table_rows(orig_rows, mod_rows) == compare_table_rows(orig_rows, mod_rows)

compare_table_cells(orig_table, out_table, st) ==
    TableRowsFrom(st, orig_table, out_table, align_table_rows(orig_table, out_table))

\* Every cell of every row of a table only the modified document has.
RECURSIVE InsertedRowsFrom(_, _)
InsertedRowsFrom(rows, st) ==
    IF rows = <<>> THEN st
    ELSE InsertedRowsFrom(Tail(rows), InsertedCellsFrom(Head(rows), st))

\* compare_tables_list from table position i on; a table only the original
\* document has is not visited.
RECURSIVE TablesListFrom(_, _, _, _)
TablesListFrom(st, ot, mt, i) ==
    IF i >= Max(Len(ot), Len(mt)) THEN st
    ELSE IF i < Len(ot) /\ i < Len(mt)
    THEN TablesListFrom(compare_table_cells(ot[i + 1], mt[i + 1], st), ot, mt, i + 1)
    ELSE IF i < Len(mt)
    THEN TablesListFrom(InsertedRowsFrom(mt[i + 1], st), ot, mt, i + 1)
    ELSE TablesListFrom(st, ot, mt, i + 1)

compare_tables_list(ot, mt, st) == TablesListFrom(st, ot, mt, 0)

----------------------------------------------------------------------------
(* Inputs *)

MaxTokLen == 5     \* longest text given to tokenize
MaxTextLen == 3    \* longest text of the exhaustive pairs of texts
MaxPhrases == 2    \* most phrases of a composed text
MaxAlignParas == 3 \* most paragraphs of a list given to align_paragraphs
MaxParas == 2      \* most paragraphs of a document given to compare_documents
MaxRows == 2       \* most rows of a table

TextChars == {"a", "A", " ", "\t"}

\* Every text over TextChars of at most MaxTextLen characters.
ShortTexts == SeqsUpTo(TextChars, MaxTextLen)

Phrases == {<<"a", " ", "a", " ", "a">>, <<"b", " ", "b", " ", "b", " ", "b">>, <<"A", " ", " ", "a", " ", "a">>}

\* Texts composed of at most MaxPhrases phrases separated by one space.
PhraseTexts == {Join(<<" ">>, ps) : ps \in SeqsUpTo(Phrases, MaxPhrases)}

\* The pairs of texts given to diff_texts.
TextPairs == (ShortTexts \X ShortTexts) \cup (PhraseTexts \X PhraseTexts)

\* Paragraphs of the lists given to align_paragraphs: "a" and "b" are each
\* similar to "a b" and not to each other.
AlignPool == {<<>>, <<"a">>, <<"b">>, <<"a", " ", "b">>}

HelloWorld == <<"H", "e", "l", "l", "o", " ", "w", "o", "r", "l", "d", ".">>

NewLine == <<"N", "e", "w", " ", "l", "i", "n", "e", ".">>

\* Paragraph texts of the documents compared: an empty paragraph, two
\* one-word paragraphs equal up to outer whitespace, and two seven-word
\* paragraphs that differ by a word-level move and have the same set of words.
ParaPool == {<<>>, <<"x">>, <<"x", " ">>,
             <<"a", " ", "a", " ", "a", " ", "b", " ", "b", " ", "b", " ", "b">>,
             <<"b", " ", "b", " ", "b", " ", "b", " ", "a", " ", "a", " ", "a">>}

Docs == SeqsUpTo(ParaPool, MaxParas)

\* Table rows: no cell, an empty cell, two cells, and two rows of two and of
\* three cells whose first cells differ by a word-level move.
RowPool == {<<>>, <<<<>>>>, <<<<"a">>, <<"b">>>>,
            <<<<"a", " ", "a", " ", "a", " ", "b", " ", "b", " ", "b", " ", "b">>, <<"b">>>>,
            <<<<"b", " ", "b", " ", "b", " ", "b", " ", "a", " ", "a", " ", "a">>, <<"b">>, <<"a", " ", "b">>>>}

Tables == SeqsUpTo(RowPool, MaxRows)

TableLists == {<<>>} \cup {<<t>> : t \in Tables}

\* The texts of the documented scenarios.
\* "The price is $50."
ThePrice50 ==
    <<"T", "h", "e", " ", "p", "r", "i", "c", "e", " ", "i", "s", " ", "$",
      "5", "0", ".">>

\* "The price is $75."
ThePrice75 ==
    <<"T", "h", "e", " ", "p", "r", "i", "c", "e", " ", "i", "s", " ", "$",
      "7", "5", ".">>

\* "$50"
Dollar50 ==
    <<"$", "5", "0">>

\* "$75"
Dollar75 ==
    <<"$", "7", "5">>

\* "A sentence that will relocate to the bottom."
Relocate ==
    <<"A", " ", "s", "e", "n", "t", "e", "n", "c", "e", " ", "t", "h", "a",
      "t", " ", "w", "i", "l", "l", " ", "r", "e", "l", "o", "c", "a", "t",
      "e", " ", "t", "o", " ", "t", "h", "e", " ", "b", "o", "t", "t", "o",
      "m", ".">>

\* "Middle."
Middle ==
    <<"M", "i", "d", "d", "l", "e", ".">>

\* "End."
End ==
    <<"E", "n", "d", ".">>

\* "Alpha beta gamma delta epsilon zeta."
AlphaFirst ==
    <<"A", "l", "p", "h", "a", " ", "b", "e", "t", "a", " ", "g", "a", "m",
      "m", "a", " ", "d", "e", "l", "t", "a", " ", "e", "p", "s", "i", "l",
      "o", "n", " ", "z", "e", "t", "a", ".">>

\* "Delta epsilon zeta alpha beta gamma."
DeltaFirst ==
    <<"D", "e", "l", "t", "a", " ", "e", "p", "s", "i", "l", "o", "n", " ",
      "z", "e", "t", "a", " ", "a", "l", "p", "h", "a", " ", "b", "e", "t",
      "a", " ", "g", "a", "m", "m", "a", ".">>

Name == <<"N", "a", "m", "e">>

Role == <<"R", "o", "l", "e">>

CellA == <<"A">>

Eng == <<"E", "n", "g">>

CellB == <<"B">>

PM == <<"P", "M">>

\* The tables of the row insertion scenario.
TwoRows == <<<<Name, Role>>, <<CellA, Eng>>>>

ThreeRows == <<<<Name, Role>>, <<CellA, Eng>>, <<CellB, PM>>>>

\* The documented scenarios, as <<orig_texts, mod_texts, orig_tables, mod_tables>>.
PureInsertionInput == << <<HelloWorld>>, <<HelloWorld, NewLine>>, <<>>, <<>> >>

WordEditInput == << <<ThePrice50>>, <<ThePrice75>>, <<>>, <<>> >>

ParagraphMoveInput == << <<Relocate, Middle, End>>, <<Middle, End, Relocate>>, <<>>, <<>> >>

WordMoveInput == << <<AlphaFirst>>, <<DeltaFirst>>, <<>>, <<>> >>

RowInsertionInput == << <<>>, <<>>, <<TwoRows>>, <<ThreeRows>> >>

Scenarios == {PureInsertionInput, WordEditInput, ParagraphMoveInput, WordMoveInput,
              RowInsertionInput}

\* The inputs of compare_documents <<orig_texts, mod_texts, orig_tables,
\* mod_tables>>: documents without tables, table lists (none or one table
\* a side) under an unchanged body paragraph, and the documented scenarios.
Inputs ==
    (Docs \X Docs \X {<<>>} \X {<<>>})
    \cup ({<<<<"x">>>>} \X {<<<<"x">>>>} \X TableLists \X TableLists)
    \cup Scenarios

----------------------------------------------------------------------------
(* State *)

None == "None"

\* The module globals as the module assigns them.
DefaultSettings ==
    /\ move_similarity_threshold = MOVE_SIMILARITY_THRESHOLD
    /\ min_move_words = MIN_MOVE_WORDS

\* Three Word files, the output format taken from the output path, and no
\* failing file access.
PlainCall ==
    /\ original_path = ".docx"
    /\ modified_path = ".docx"
    /\ output_path = ".docx"
    /\ output_format = None
    /\ fault = None

\* The variables of compare_documents before it runs.
DocIdle ==
    /\ alignments = <<>>
    /\ temp_results = <<>>
    /\ para_moves = {}
    /\ diff_results = <<>>
    /\ stats = ZeroStats
    /\ result = None

\* The variables of the pure text functions before one runs.
FunIdle ==
    /\ tokens = <<>>
    /\ given_segments = <<>>
    /\ segments = <<>>
    /\ sim = None

NoDocument ==
    orig_texts = <<>> /\ mod_texts = <<>> /\ orig_tables = <<>> /\ mod_tables = <<>>

\* The variables of compare_with_full_formatting before it runs, for a
\* document without sections.
FullIdle ==
    /\ orig_sections = <<>>
    /\ mod_sections = <<>>
    /\ section_idx = 0
    /\ region = "header"
    /\ printed = <<>>

\* The window after __init__.
GuiIdle ==
    /\ compare_btn = "normal"
    /\ status_var = "Select two documents to compare"
    /\ threads = <<>>
    /\ after_queue = <<>>
    /\ shown = <<>>
    /\ quit_called = FALSE

settings == <<move_similarity_threshold, min_move_words>>

callVars == <<original_path, modified_path, output_path, output_format, fault>>

docInputs == <<orig_texts, mod_texts, orig_tables, mod_tables>>

docVars == <<alignments, temp_results, para_moves, diff_results, stats, result>>

funVars == <<text1, text2, tokens, given_segments, segments, sim>>

fullVars == <<orig_sections, mod_sections, section_idx, region, printed>>

guiVars == <<compare_btn, status_var, threads, after_queue, shown, quit_called>>

----------------------------------------------------------------------------
(* tokenize *)

InitTokenize ==
    /\ pc = "tokenize"
    /\ text1 \in SeqsUpTo(TextChars, MaxTokLen)
    /\ text2 = <<>>
    /\ FunIdle /\ DocIdle /\ FullIdle /\ GuiIdle /\ NoDocument /\ DefaultSettings /\ PlainCall

Tokenize ==
    /\ pc = "tokenize"
    /\ tokens' = tokenize(text1)
    /\ pc' = "tokenized"
    /\ UNCHANGED <<text1, text2, given_segments, segments, sim, docInputs, docVars,
                   settings, callVars, fullVars, guiVars>>

SpecTokenize == InitTokenize /\ [][Tokenize]_vars

----------------------------------------------------------------------------
(* calculate_similarity *)

\* The short texts, and two texts over two letters whose longest common
\* run is not unique.
SimilarityTexts == ShortTexts \cup {<<"a", "b", "a">>, <<"b", " ", "a">>}

InitSimilarity ==
    /\ pc = "similarity"
    /\ text1 \in SimilarityTexts
    /\ text2 \in SimilarityTexts
    /\ FunIdle /\ DocIdle /\ FullIdle /\ GuiIdle /\ NoDocument /\ DefaultSettings /\ PlainCall

Similarity ==
    /\ pc = "similarity"
    /\ sim' = calculate_similarity(text1, text2)
    /\ pc' = "scored"
    /\ UNCHANGED <<text1, text2, tokens, given_segments, segments, docInputs, docVars,
                   settings, callVars, fullVars, guiVars>>

SpecSimilarity == InitSimilarity /\ [][Similarity]_vars

----------------------------------------------------------------------------
(* diff_texts, then detect_word_level_moves on its result *)

InitDiff ==
    /\ pc = "diff"
    /\ \E p \in TextPairs : text1 = p[1] /\ text2 = p[2]
    /\ FunIdle /\ DocIdle /\ FullIdle /\ GuiIdle /\ NoDocument /\ DefaultSettings /\ PlainCall

Diff ==
    /\ pc = "diff"
    /\ segments' = diff_texts(text1, text2)
    /\ pc' = "diffed"
    /\ UNCHANGED <<text1, text2, tokens, given_segments, sim, docInputs, docVars,
                   settings, callVars, fullVars, guiVars>>

DetectMoves ==
    /\ pc = "diffed"
    /\ segments' = detect_word_level_moves(segments)
    /\ pc' = "moved"
    /\ UNCHANGED <<text1, text2, tokens, given_segments, sim, docInputs, docVars,
                   settings, callVars, fullVars, guiVars>>

NextDiff == Diff \/ DetectMoves

SpecDiff == InitDiff /\ [][NextDiff]_vars

----------------------------------------------------------------------------
(* diff_texts and detect_word_level_moves with MOVE_SIMILARITY_THRESHOLD   *)
(* set to 0.0 and MIN_MOVE_WORDS set to 1                                  *)

\* Texts of at most MaxPhrases one-letter words: two different words
\* have no character and no word in common.
LooseTexts == {Join(<<" ">>, ws) : ws \in SeqsUpTo({<<"x">>, <<"y">>, <<"a">>}, MaxPhrases)}

LoosePairs == TextPairs \cup (LooseTexts \X LooseTexts)

InitLoose ==
    /\ pc = "diff"
    /\ \E p \in LoosePairs : text1 = p[1] /\ text2 = p[2]
    /\ move_similarity_threshold = Zero
    /\ min_move_words = 1
    /\ FunIdle /\ DocIdle /\ FullIdle /\ GuiIdle /\ NoDocument /\ PlainCall

SpecLoose == InitLoose /\ [][NextDiff]_vars

----------------------------------------------------------------------------
(* detect_word_level_moves on any segment list *)

MaxSegs == 4       \* most segments of a list given to detect_word_level_moves

\* "aaa b c"
MoveA == <<"a", "a", "a", " ", "b", " ", "c">>

\* "AAA  b d": after normalization at similarity 6/7 of MoveA
MoveB == <<"A", "A", "A", " ", " ", "b", " ", "d">>

\* "aaa b c d": at similarity 7/8 of MoveA and of MoveB
MoveD == <<"a", "a", "a", " ", "b", " ", "c", " ", "d">>

\* "b c d": below the threshold with the three texts above
MoveE == <<"b", " ", "c", " ", "d">>

\* "b c": fewer than MIN_MOVE_WORDS words
MoveS == <<"b", " ", "c">>

MoveSegs ==
    {Seg(t, "delete") : t \in {MoveA, MoveD, MoveE, MoveS}}
    \cup {Seg(t, "insert") : t \in {MoveA, MoveB, MoveD}}
    \cup {Seg(MoveA, "equal")}

InitMoves ==
    /\ pc = "detect"
    /\ given_segments \in SeqsUpTo(MoveSegs, MaxSegs)
    /\ text1 = <<>> /\ text2 = <<>>
    /\ tokens = <<>> /\ segments = <<>> /\ sim = None
    /\ DocIdle /\ FullIdle /\ GuiIdle /\ NoDocument /\ DefaultSettings /\ PlainCall

DetectOnly ==
    /\ pc = "detect"
    /\ segments' = detect_word_level_moves(given_segments)
    /\ pc' = "detected"
    /\ UNCHANGED <<text1, text2, tokens, given_segments, sim, docInputs, docVars,
                   settings, callVars, fullVars, guiVars>>

SpecMoves == InitMoves /\ [][DetectOnly]_vars

----------------------------------------------------------------------------
(* align_paragraphs *)

InitAlign ==
    /\ pc = "align"
    /\ orig_texts \in SeqsUpTo(AlignPool, MaxAlignParas)
    /\ mod_texts \in SeqsUpTo(AlignPool, MaxAlignParas)
    /\ orig_tables = <<>> /\ mod_tables = <<>>
    /\ text1 = <<>> /\ text2 = <<>>
    /\ FunIdle /\ DocIdle /\ FullIdle /\ GuiIdle /\ DefaultSettings /\ PlainCall

AlignOnly ==
    /\ pc = "align"
    /\ alignments' = align_paragraphs(orig_texts, mod_texts)
    /\ pc' = "aligned_only"
    /\ UNCHANGED <<funVars, docInputs, temp_results, para_moves, diff_results, stats,
                   result, settings, callVars, fullVars, guiVars>>

SpecAlign == InitAlign /\ [][AlignOnly]_vars

----------------------------------------------------------------------------
(* compare_documents as a process.  orig_texts, mod_texts, orig_tables and *)
(* mod_tables are the contents of the two files; a path is represented by *)
(* its extension; fault names the step whose file access raises.  The      *)
(* first step checks the file types and extracts, the passes run in order, *)
(* the output is generated and the result record is returned.  An          *)
(* exception is represented by its message.                                *)

Exts == {".docx", ".pdf", ".txt", ".doc"}

Formats == {None, "word", "pdf"}

Faults == {None, "extract", "output"}

\* The arguments and the environment of a call.
Calls == Exts \X Exts \X Exts \X Formats \X Faults

\* The inputs compared under every call: an unchanged body paragraph and a
\* one-row table a side.
CallTables ==
    {<<<<<<"a">>, <<"b">>>>>>,
     <<<<<<"b", " ", "b", " ", "b", " ", "b", " ", "a", " ", "a", " ", "a">>, <<"b">>,
         <<"a", " ", "b">>>>>>}

CallInputs == {<<<<"x">>>>} \X {<<<<"x">>>>} \X {<<t>> : t \in CallTables} \X {<<t>> : t \in CallTables}

\* get_file_type: 'word', 'pdf', or the message of the ValueError raised.
get_file_type(filepath) ==
    IF filepath = ".docx" THEN "word"
    ELSE IF filepath = ".pdf" THEN "pdf"
    ELSE "Unsupported file type: " \o filepath

Raises(file_type) == file_type \notin {"word", "pdf"}

\* The message of an exception raised by a failing file access.
IOError == "IOError"

\* The exception raised before the alignment, None when none is: the file
\* type of the output path when no format is given, the file types of the
\* two inputs, then the extraction.
InputException ==
    IF output_format = None /\ Raises(get_file_type(output_path))
    THEN get_file_type(output_path)
    ELSE IF Raises(get_file_type(original_path)) THEN get_file_type(original_path)
    ELSE IF Raises(get_file_type(modified_path)) THEN get_file_type(modified_path)
    ELSE IF fault = "extract" THEN IOError
    ELSE None

\* A generator that hides a failing file access from its caller.
OutputException_Swallowed == None

\* The exception raised by the generation of the output, None when none is.
OutputException == IF fault = "output" THEN IOError ELSE None

\* extract_tables_from_document, given the tables of the file.
extract_tables_from_document(doc_path, tables) ==
    IF get_file_type(doc_path) = "pdf" THEN <<>> ELSE tables

\* The record returned after the last step; error is None and output_path
\* is the argument.
Success(st) ==
    [success |-> TRUE, insertions |-> st.insertions, deletions |-> st.deletions,
     moves |-> st.moves, unchanged |-> st.unchanged]

\* The record returned by the except clause.
Failure(e) ==
    [success |-> FALSE, insertions |-> 0, deletions |-> 0, moves |-> 0,
     unchanged |-> 0, error |-> e]

\* The stream and the counters after a pass.
Output(acc) ==
    /\ diff_results' = acc.results
    /\ stats' = acc.stats

\* Every input under a plain call, and the inputs of CallInputs under every call.
Init ==
    /\ pc = "start"
    /\ \E in \in Inputs :
          /\ orig_texts = in[1]
          /\ mod_texts = in[2]
          /\ orig_tables = in[3]
          /\ mod_tables = in[4]
          /\ \/ PlainCall
             \/ /\ in \in CallInputs
                /\ \E call \in Calls :
                      /\ original_path = call[1]
                      /\ modified_path = call[2]
                      /\ output_path = call[3]
                      /\ output_format = call[4]
                      /\ fault = call[5]
    /\ DocIdle /\ FullIdle /\ GuiIdle /\ FunIdle /\ DefaultSettings
    /\ text1 = <<>> /\ text2 = <<>>

Align ==
    /\ pc = "start"
    /\ InputException = None
    /\ orig_tables' = extract_tables_from_document(original_path, orig_tables)
    /\ mod_tables' = extract_tables_from_document(modified_path, mod_tables)
    /\ alignments' = align_paragraphs(orig_texts, mod_texts)
    /\ pc' = "aligned"
    /\ UNCHANGED <<funVars, orig_texts, mod_texts, temp_results, para_moves, diff_results,
                   stats, result, settings, callVars, fullVars, guiVars>>

RaiseOnInput ==
    /\ pc = "start"
    /\ InputException # None
    /\ result' = Failure(InputException)
    /\ pc' = "done"
    /\ UNCHANGED <<funVars, docInputs, alignments, temp_results, para_moves,
                   diff_results, stats, settings, callVars, fullVars, guiVars>>

FirstPass ==
    /\ pc = "aligned"
    /\ temp_results' = FirstPassFrom(orig_texts, mod_texts, alignments)
    /\ pc' = "collected"
    /\ UNCHANGED <<funVars, docInputs, alignments, para_moves, diff_results, stats, result,
                   settings, callVars, fullVars, guiVars>>

SecondPass ==
    /\ pc = "collected"
    /\ para_moves' = ParaMoves(temp_results)
    /\ pc' = "paired"
    /\ UNCHANGED <<funVars, docInputs, alignments, temp_results, diff_results, stats, result,
                   settings, callVars, fullVars, guiVars>>

EmitBody ==
    /\ pc = "paired"
    /\ Output(EmitFrom(temp_results, para_moves, 0,
                       [results |-> diff_results, stats |-> stats]))
    /\ pc' = "body"
    /\ UNCHANGED <<funVars, docInputs, alignments, temp_results, para_moves, result,
                   settings, callVars, fullVars, guiVars>>

CompareTables ==
    /\ pc = "body"
    /\ Output(TablesFrom(orig_tables, mod_tables, 0,
                         [results |-> diff_results, stats |-> stats]))
    /\ pc' = "tables"
    /\ UNCHANGED <<funVars, docInputs, alignments, temp_results, para_moves, result,
                   settings, callVars, fullVars, guiVars>>

Return ==
    /\ pc = "tables"
    /\ OutputException = None
    /\ result' = Success(stats)
    /\ pc' = "done"
    /\ UNCHANGED <<funVars, docInputs, alignments, temp_results, para_moves,
                   diff_results, stats, settings, callVars, fullVars, guiVars>>

RaiseOnOutput ==
    /\ pc = "tables"
    /\ OutputException # None
    /\ result' = Failure(OutputException)
    /\ pc' = "done"
    /\ UNCHANGED <<funVars, docInputs, alignments, temp_results, para_moves,
                   diff_results, stats, settings, callVars, fullVars, guiVars>>

Next ==
    \/ Align \/ RaiseOnInput \/ FirstPass \/ SecondPass \/ EmitBody \/ CompareTables
    \/ Return \/ RaiseOnOutput

Spec == Init /\ [][Next]_vars


----------------------------------------------------------------------------
(* compare_with_full_formatting.  A header or footer region of a section   *)
(* is what the access to it gives: an object with a paragraph list, a      *)
(* false value, or an exception.  fault names the document-level file      *)
(* access that raises: "extract" the opening of the documents, "output"    *)
(* the saving of the output.                                               *)

MaxSections == 2   \* most sections of a document
MaxFullRows == 1   \* most rows of a table given to compare_with_full_formatting

\* The inputs without sections <<orig_texts, mod_texts, orig_tables,
\* mod_tables>>: documents without tables, table lists (none or one table a
\* side) under an unchanged body paragraph, and the documented scenarios.
FullTableLists == {<<>>} \cup {<<t>> : t \in SeqsUpTo(RowPool, MaxFullRows)}

FullInputs ==
    (Docs \X Docs \X {<<>>} \X {<<>>})
    \cup ({<<<<"x">>>>} \X {<<<<"x">>>>} \X FullTableLists \X FullTableLists)
    \cup Scenarios

Region(access, paragraphs) == [access |-> access, paragraphs |-> paragraphs]

Section(header, first_page_header, footer, first_page_footer) ==
    [header |-> header, first_page_header |-> first_page_header,
     footer |-> footer, first_page_footer |-> first_page_footer]

AB == <<"a", " ", "b">>

\* Pairs <<original region, modified region>>: no paragraph on both sides,
\* on one side only, a changed paragraph, a false value and an exception.
HeaderPairs ==
    {<<Region("ok", <<>>), Region("ok", <<>>)>>,
     <<Region("ok", <<>>), Region("ok", <<AB>>)>>,
     <<Region("ok", <<<<"a">>>>), Region("ok", <<>>)>>,
     <<Region("absent", <<>>), Region("raise", <<>>)>>,
     <<Region("raise", <<>>), Region("ok", <<AB>>)>>}

FooterPairs ==
    {<<Region("ok", <<<<"a">>>>), Region("ok", <<AB>>)>>,
     <<Region("ok", <<<<"a">>>>), Region("absent", <<>>)>>,
     <<Region("ok", <<<<"a">>>>), Region("raise", <<>>)>>}

FirstPagePairs ==
    {<<Region("ok", <<AB>>), Region("ok", <<AB>>)>>,
     <<Region("raise", <<>>), Region("raise", <<>>)>>}

\* Pairs <<section of the original, section of the modified document>>; the
\* two first-page regions of a section are alike.
SectionPairs ==
    {<<Section(h[1], fp[1], f[1], fp[1]), Section(h[2], fp[2], f[2], fp[2])>> :
        h \in HeaderPairs, fp \in FirstPagePairs, f \in FooterPairs}

\* A section only one of the documents has.
SpareSection ==
    Section(Region("ok", <<AB>>), Region("ok", <<AB>>), Region("ok", <<AB>>),
            Region("ok", <<AB>>))

\* The section lists of the two documents, of at most MaxSections sections
\* each: the sections both have, and at most one more section on one side.
SectionLists ==
    {<<[k \in 1..Len(ps) |-> ps[k][1]] \o spare[1], [k \in 1..Len(ps) |-> ps[k][2]] \o spare[2]>> :
        ps \in SeqsUpTo(SectionPairs, MaxSections),
        spare \in {<<<<>>, <<>>>>, <<<<SpareSection>>, <<>>>>, <<<<>>, <<SpareSection>>>>}}

RegionOf(section, name) ==
    IF name = "header" THEN section.header
    ELSE IF name = "first_page_header" THEN section.first_page_header
    ELSE IF name = "footer" THEN section.footer
    ELSE section.first_page_footer

\* The message printed before a region is compared and the warning printed
\* by the except clauses of the header and of the footer.
Message(kind, name, i) == [kind |-> kind, region |-> name, section |-> i + 1]

\* The number of iterations of the loop over the sections.
SectionCount == IF Len(orig_sections) <= Len(mod_sections) THEN Len(orig_sections) ELSE Len(mod_sections)

\* The two regions the try statement at hand looks at.
OrigRegion == RegionOf(orig_sections[section_idx + 1], region)

OutRegion == RegionOf(mod_sections[section_idx + 1], region)

\* `if orig_section.X and out_section.X`: the modified side is only
\* accessed when the original side is a true value.
AccessRaises(orig_region, out_region) ==
    orig_region.access = "raise" \/ (orig_region.access = "ok" /\ out_region.access = "raise")

BothPresent(orig_region, out_region) ==
    orig_region.access = "ok" /\ out_region.access = "ok"

\* `if orig_paras or out_paras`
Compared(orig_region, out_region) ==
    BothPresent(orig_region, out_region)
    /\ (orig_region.paragraphs # <<>> \/ out_region.paragraphs # <<>>)

\* The except clauses of the header and of the footer print a warning, the
\* ones of the first-page regions pass.
Warns(name) == name \in {"header", "footer"}

\* An except clause that lets the exception reach the caller.
AfterExcept_Propagating(name) == "full_raised"

\* Where the control is after an except clause: at the next try statement.
AfterExcept(name) == "full_regions"

\* The next try statement: of the same section, or the header of the next.
Advance ==
    IF region = "first_page_footer"
    THEN section_idx' = section_idx + 1 /\ region' = "header"
    ELSE /\ section_idx' = section_idx
         /\ region' = (IF region = "header" THEN "first_page_header"
                       ELSE IF region = "first_page_header" THEN "footer"
                       ELSE "first_page_footer")

\* The calls of compare_with_full_formatting: every input without
\* sections, and an unchanged body paragraph with every section list; the
\* documents with at most one section in common also under every fault.
InitFull ==
    /\ pc = "full_start"
    /\ original_path = ".docx" /\ modified_path = ".docx" /\ output_path = ".docx"
    /\ output_format = None
    /\ \/ /\ \E in \in FullInputs :
                /\ orig_texts = in[1]
                /\ mod_texts = in[2]
                /\ orig_tables = in[3]
                /\ mod_tables = in[4]
          /\ orig_sections = <<>> /\ mod_sections = <<>>
          /\ fault = None
       \/ /\ orig_texts = <<<<"x">>>> /\ mod_texts = <<<<"x">>>>
          /\ orig_tables = <<>> /\ mod_tables = <<>>
          /\ \E sl \in SectionLists :
                /\ Len(sl[1]) <= MaxSections /\ Len(sl[2]) <= MaxSections
                /\ orig_sections = sl[1] /\ mod_sections = sl[2]
          /\ fault \in Faults
          /\ (fault # None => SectionCount <= 1)
    /\ section_idx = 0 /\ region = "header" /\ printed = <<>>
    /\ DocIdle /\ GuiIdle /\ FunIdle /\ DefaultSettings
    /\ text1 = <<>> /\ text2 = <<>>

fullFrame == <<funVars, docInputs, alignments, temp_results, para_moves, diff_results,
               settings, callVars, orig_sections, mod_sections, guiVars>>

\* shutil.copy2 or Document() raises: the call ends with the exception.
FullRaiseOnOpen ==
    /\ pc = "full_start"
    /\ fault = "extract"
    /\ pc' = "full_raised"
    /\ UNCHANGED <<fullFrame, stats, result, section_idx, region, printed>>

\* The body paragraphs.
FullBody ==
    /\ pc = "full_start"
    /\ fault # "extract"
    /\ stats' = compare_paragraphs_list(orig_texts, mod_texts, ZeroStats)
    /\ pc' = "full_body"
    /\ UNCHANGED <<fullFrame, result, section_idx, region, printed>>

\* `if orig_tables or out_tables: compare_tables_list(...)`
FullTables ==
    /\ pc = "full_body"
    /\ stats' = (IF orig_tables # <<>> \/ mod_tables # <<>>
                 THEN compare_tables_list(orig_tables, mod_tables, stats) ELSE stats)
    /\ pc' = "full_regions"
    /\ UNCHANGED <<fullFrame, result, section_idx, region, printed>>

\* A try statement whose region is compared.
CompareRegion ==
    /\ pc = "full_regions"
    /\ section_idx < SectionCount
    /\ ~AccessRaises(OrigRegion, OutRegion)
    /\ Compared(OrigRegion, OutRegion)
    /\ printed' = Append(printed, Message("Comparing", region, section_idx))
    /\ stats' = compare_paragraphs_list(OrigRegion.paragraphs, OutRegion.paragraphs, stats)
    /\ Advance
    /\ UNCHANGED <<fullFrame, result, pc>>

\* A try statement whose conditions are false.
SkipRegion ==
    /\ pc = "full_regions"
    /\ section_idx < SectionCount
    /\ ~AccessRaises(OrigRegion, OutRegion)
    /\ ~Compared(OrigRegion, OutRegion)
    /\ Advance
    /\ UNCHANGED <<fullFrame, stats, result, pc, printed>>

\* A try statement whose body raises.
RegionFailure ==
    /\ pc = "full_regions"
    /\ section_idx < SectionCount
    /\ AccessRaises(OrigRegion, OutRegion)
    /\ printed' = (IF Warns(region)
                   THEN Append(printed, Message("Warning", region, section_idx))
                   ELSE printed)
    /\ pc' = AfterExcept(region)
    /\ Advance
    /\ UNCHANGED <<fullFrame, stats, result>>

\* output_doc.save raises: the call ends with the exception.
FullRaiseOnSave ==
    /\ pc = "full_regions"
    /\ section_idx >= SectionCount
    /\ fault = "output"
    /\ pc' = "full_raised"
    /\ UNCHANGED <<fullFrame, stats, result, section_idx, region, printed>>

\* The output is saved and the counters are returned.
FullReturn ==
    /\ pc = "full_regions"
    /\ section_idx >= SectionCount
    /\ fault # "output"
    /\ result' = stats
    /\ pc' = "full_done"
    /\ UNCHANGED <<fullFrame, stats, section_idx, region, printed>>

NextFull ==
    \/ FullRaiseOnOpen \/ FullBody \/ FullTables \/ CompareRegion \/ SkipRegion
    \/ RegionFailure \/ FullRaiseOnSave \/ FullReturn

SpecFull == InitFull /\ [][NextFull]_vars

----------------------------------------------------------------------------
(* gui.py.  The main thread runs the Tk event loop: a click on the Compare *)
(* button, a file dialog, or a callback scheduled with root.after is one   *)
(* step of it.  A background thread runs run_comparison; its steps         *)
(* interleave with the steps of the main thread.  The variable e of        *)
(* run_comparison is bound in the except clause and is unbound when the    *)
(* clause is left; the callback scheduled in the clause reads it when it   *)
(* is run.  original_path and modified_path are the two entries.           *)

MaxClicks == 2     \* most clicks on the Compare button

\* The entries: empty, the path of no file, the path of a file.
GuiPaths == {"", "missing.docx", "a.docx"}

Exists(path) == path = "a.docx"

\* The messages of the exceptions compare_with_full_formatting raises.
ErrorMessages == {"Package not found", "Permission denied"}

Unbound == "Unbound"

\* The message compare shows for the entries, None when they are valid.
ValidationError(original, modified) ==
    IF original = "" \/ modified = "" THEN "Please select both documents"
    ELSE IF ~Exists(original) THEN "Original file not found:\n" \o original
    ELSE IF ~Exists(modified) THEN "Modified file not found:\n" \o modified
    ELSE None

ValidationMessages == {ValidationError(o, m) : o \in GuiPaths, m \in GuiPaths} \ {None}

\* join(dirname(modified), splitext(basename(modified))[0] + "_REDLINE.docx")
RedlinePath(modified) == IF modified = "a.docx" THEN "a_REDLINE.docx" ELSE modified \o "_REDLINE.docx"

\* The number of calls of compare so far.
Clicks == Len(threads) + Cardinality({k \in 1..Len(shown) : shown[k] \in ValidationMessages})

\* A thread of run_comparison: its position and the value of its variable e.
Thread(at, e) == [at |-> at, e |-> e]

\* A callback scheduled with root.after by thread t.
Callback(fn, t) == [fn |-> fn, thread |-> t]

\* str(e) as the scheduled lambda evaluates it: the message, or a
\* NameError when e is unbound.
ClosureValue(thread) == IF thread.e = Unbound THEN "NameError" ELSE thread.e

InitGui ==
    /\ pc = "mainloop"
    /\ original_path \in GuiPaths
    /\ modified_path \in GuiPaths
    /\ output_path = ""
    /\ output_format = None /\ fault = None
    /\ GuiIdle /\ FullIdle /\ DocIdle /\ FunIdle /\ NoDocument /\ DefaultSettings
    /\ text1 = <<>> /\ text2 = <<>>

guiFrame == <<funVars, docInputs, docVars, settings, output_format, fault, fullVars, pc>>

\* browse_original: the dialog returns a path, and an empty one is ignored.
BrowseOriginal ==
    /\ ~quit_called
    /\ \E path \in GuiPaths : original_path' = (IF path # "" THEN path ELSE original_path)
    /\ UNCHANGED <<guiFrame, guiVars, modified_path, output_path>>

BrowseModified ==
    /\ ~quit_called
    /\ \E path \in GuiPaths : modified_path' = (IF path # "" THEN path ELSE modified_path)
    /\ UNCHANGED <<guiFrame, guiVars, original_path, output_path>>

\* compare, entries not valid: the error is shown and the call returns.
CompareRejected ==
    /\ ~quit_called
    /\ compare_btn = "normal"
    /\ Clicks < MaxClicks
    /\ ValidationError(original_path, modified_path) # None
    /\ shown' = Append(shown, ValidationError(original_path, modified_path))
    /\ UNCHANGED <<guiFrame, original_path, modified_path, output_path, compare_btn,
                   status_var, threads, after_queue, quit_called>>

\* compare, entries valid: the button is disabled and the thread is started.
\* No callback is pending when the button is enabled, so root.update() runs none.
CompareStart ==
    /\ ~quit_called
    /\ compare_btn = "normal"
    /\ Clicks < MaxClicks
    /\ ValidationError(original_path, modified_path) = None
    /\ compare_btn' = "disabled"
    /\ status_var' = "Comparing documents..."
    /\ output_path' = RedlinePath(modified_path)
    /\ threads' = Append(threads, Thread("running", Unbound))
    /\ UNCHANGED <<guiFrame, original_path, modified_path, after_queue, shown, quit_called>>

\* run_comparison: compare_with_full_formatting returns.
ThreadReturns(t) ==
    /\ threads[t].at = "running"
    /\ threads' = [threads EXCEPT ![t] = Thread("returned", Unbound)]
    /\ UNCHANGED <<guiFrame, callVars, compare_btn, status_var, after_queue, shown, quit_called>>

\* run_comparison: compare_with_full_formatting raises, e is bound.
ThreadRaises(t) ==
    /\ threads[t].at = "running"
    /\ \E msg \in ErrorMessages : threads' = [threads EXCEPT ![t] = Thread("caught", msg)]
    /\ UNCHANGED <<guiFrame, callVars, compare_btn, status_var, after_queue, shown, quit_called>>

\* self.root.after(0, lambda: self.finish_comparison(output_path))
ScheduleFinish(t) ==
    /\ threads[t].at = "returned"
    /\ after_queue' = Append(after_queue, Callback("finish_comparison", t))
    /\ threads' = [threads EXCEPT ![t] = Thread("done", Unbound)]
    /\ UNCHANGED <<guiFrame, callVars, compare_btn, status_var, shown, quit_called>>

\* self.root.after(0, lambda: self.handle_error(str(e))), in the except clause
ScheduleError(t) ==
    /\ threads[t].at = "caught"
    /\ after_queue' = Append(after_queue, Callback("handle_error", t))
    /\ threads' = [threads EXCEPT ![t] = Thread("scheduled", threads[t].e)]
    /\ UNCHANGED <<guiFrame, callVars, compare_btn, status_var, shown, quit_called>>

\* The except clause is left: e is unbound, the thread ends.
LeaveExcept(t) ==
    /\ threads[t].at = "scheduled"
    /\ threads' = [threads EXCEPT ![t] = Thread("done", Unbound)]
    /\ UNCHANGED <<guiFrame, callVars, compare_btn, status_var, after_queue, shown, quit_called>>

ThreadStep ==
    \E t \in 1..Len(threads) :
        \/ ThreadReturns(t) \/ ThreadRaises(t) \/ ScheduleFinish(t) \/ ScheduleError(t)
        \/ LeaveExcept(t)

\* The event loop runs the callback of finish_comparison: the output is
\* opened and root.quit() ends the loop.
RunFinish ==
    /\ ~quit_called
    /\ after_queue # <<>>
    /\ Head(after_queue).fn = "finish_comparison"
    /\ after_queue' = Tail(after_queue)
    /\ quit_called' = TRUE
    /\ UNCHANGED <<guiFrame, callVars, compare_btn, status_var, threads, shown>>

\* The event loop runs the lambda of the except clause while e is bound:
\* handle_error shows the message and enables the button.
RunHandleError ==
    /\ ~quit_called
    /\ after_queue # <<>>
    /\ Head(after_queue).fn = "handle_error"
    /\ ClosureValue(threads[Head(after_queue).thread]) # "NameError"
    /\ after_queue' = Tail(after_queue)
    /\ shown' = Append(shown, "Comparison failed:\n"
                              \o ClosureValue(threads[Head(after_queue).thread]))
    /\ compare_btn' = "normal"
    /\ status_var' = "Comparison failed"
    /\ UNCHANGED <<guiFrame, callVars, threads, quit_called>>

\* The event loop runs the lambda of the except clause after e is unbound:
\* str(e) raises NameError, Tk reports the exception of the callback and
\* handle_error is not called.
CallbackNameError ==
    /\ ~quit_called
    /\ after_queue # <<>>
    /\ Head(after_queue).fn = "handle_error"
    /\ ClosureValue(threads[Head(after_queue).thread]) = "NameError"
    /\ after_queue' = Tail(after_queue)
    /\ UNCHANGED <<guiFrame, callVars, compare_btn, status_var, threads, shown, quit_called>>

MainLoopStep == RunFinish \/ RunHandleError \/ CallbackNameError

NextGui ==
    \/ BrowseOriginal \/ BrowseModified \/ CompareRejected \/ CompareStart
    \/ ThreadStep \/ MainLoopStep

SpecGui == InitGui /\ [][NextGui]_vars

\* The event loop runs a pending callback, and a started thread runs.
SpecGuiLive == SpecGui /\ WF_vars(MainLoopStep) /\ WF_vars(ThreadStep)
----------------------------------------------------------------------------
(* Properties *)

\* The concatenation of the texts of the segments whose kind is in kinds.
RECURSIVE Project(_, _)
Project(segs, kinds) ==
    IF segs = <<>> THEN <<>>
    ELSE (IF Head(segs).kind \in kinds THEN Head(segs).text ELSE <<>>)
         \o Project(Tail(segs), kinds)

OrigKinds == {"equal", "delete", "move_source"}

ModKinds == {"equal", "insert", "move_dest"}

\* The number of segments of a kind in a segment list.
CountKind(segs, kind) == Cardinality({k \in 1..Len(segs) : segs[k].kind = kind})

\* All segments of the emitted stream, in order.
StreamSegments == Concat([k \in 1..Len(diff_results) |-> diff_results[k].segments])

\* No two pairs of a pairing share a deletion or an insertion.
OneToOne(moves) ==
    \A p \in moves : \A q \in moves : (p[1] = q[1] \/ p[2] = q[2]) => p = q

Eq(r, s) == r.n * s.d = s.n * r.d

IsMatchRecord(rec) == rec[3] = "match"

IsMatchTemp(t) == t.align_type = "match"

\* The match records of the alignment and, in the same order, their temp results.
MatchRecords == SelectSeq(alignments, IsMatchRecord)

MatchTemps == SelectSeq(temp_results, IsMatchTemp)

Emitted == pc \in {"body", "tables", "done"}

Collected == pc \in {"collected", "paired", "body", "tables", "done"}

\* align_paragraphs has returned.
Aligned == pc # "start" /\ (pc = "done" => InputException = None)

\* C1: the segments of diff_texts, and the same segments after
\* detect_word_level_moves, project to the original text (equal, delete,
\* move_source) and to the modified text (equal, insert, move_dest).
C1_RoundTrip ==
    pc \in {"diffed", "moved"} =>
        /\ Project(segments, OrigKinds) = text1
        /\ Project(segments, ModKinds) = text2

C1_Witness ==
    /\ pc = "moved"
    /\ \E k \in 1..Len(segments) : segments[k].kind = "move_source"
    /\ \E k \in 1..Len(segments) : segments[k].kind = "equal"

\* C2: the four counters add up to the number of words of all segments of
\* the emitted stream, body paragraphs and table rows.
C2_Conservation ==
    Emitted =>
        stats.insertions + stats.deletions + stats.moves + stats.unchanged
            = SumSeq([k \in 1..Len(StreamSegments) |-> WordCount(StreamSegments[k].text)])

\* C3: the stream holds as many move_source as move_dest segments, so does
\* the result of every call of the word-level detector on a matched pair,
\* and the paragraph-level and word-level pairings are one-to-one.
C3_MoveBijection ==
    /\ OneToOne(para_moves)
    /\ \A k \in 1..Len(MatchTemps) :
          CountKind(MatchTemps[k].segments, "move_source")
              = CountKind(MatchTemps[k].segments, "move_dest")
    /\ pc = "collected" =>
          \A k \in 1..Len(MatchRecords) :
              OneToOne(WordMoves(diff_texts(orig_texts[MatchRecords[k][1] + 1],
                                            mod_texts[MatchRecords[k][2] + 1])))
    /\ Emitted =>
          CountKind(StreamSegments, "move_source") = CountKind(StreamSegments, "move_dest")

C3_Witness ==
    /\ pc = "done"
    /\ para_moves # {}
    /\ CountKind(StreamSegments, "move_source") > 0

\* C4: for equal inputs the aligner matches paragraph i with paragraph i,
\* every emitted segment is of kind equal, and insertions, deletions and
\* moves are 0.
C4_IdenticalNoChange ==
    (orig_texts = mod_texts /\ orig_tables = mod_tables) =>
        /\ Aligned =>
              alignments = [k \in 1..Len(orig_texts) |-> <<k - 1, k - 1, "match">>]
        /\ Emitted =>
              /\ \A k \in 1..Len(StreamSegments) : StreamSegments[k].kind = "equal"
              /\ stats.insertions = 0 /\ stats.deletions = 0 /\ stats.moves = 0
        /\ pc = "done" =>
              result.insertions = 0 /\ result.deletions = 0 /\ result.moves = 0

C4_Witness ==
    /\ pc = "done"
    /\ orig_texts = mod_texts /\ orig_tables = mod_tables
    /\ orig_tables # <<>>
    /\ Len(StreamSegments) >= 3

\* C5 as claimed: every annotated paragraph of a match alignment projects
\* to the modified paragraph and to the original paragraph, also when the
\* two texts are equal after trimming.
C5_RoundTripAsClaimed ==
    Collected =>
        \A k \in 1..Len(MatchRecords) :
            /\ Project(MatchTemps[k].segments, ModKinds) = mod_texts[MatchRecords[k][2] + 1]
            /\ Project(MatchTemps[k].segments, OrigKinds) = orig_texts[MatchRecords[k][1] + 1]

\* C5 amended: every annotated paragraph of a match alignment projects to
\* the modified paragraph; it projects to the original paragraph when the
\* two texts differ after trimming, and to a text equal to the original
\* after trimming when they do not.
C5_RoundTripUpToTrim ==
    Collected =>
        \A k \in 1..Len(MatchRecords) :
            LET orig == orig_texts[MatchRecords[k][1] + 1]
                mod == mod_texts[MatchRecords[k][2] + 1]
                segs == MatchTemps[k].segments
            IN  /\ Project(segs, ModKinds) = mod
                /\ Strip(orig) # Strip(mod) => Project(segs, OrigKinds) = orig
                /\ Strip(orig) = Strip(mod) => Strip(Project(segs, OrigKinds)) = Strip(orig)

C5_Witness ==
    /\ pc = "done"
    /\ \E k \in 1..Len(MatchRecords) :
          /\ orig_texts[MatchRecords[k][1] + 1] # mod_texts[MatchRecords[k][2] + 1]
          /\ Strip(orig_texts[MatchRecords[k][1] + 1]) = Strip(mod_texts[MatchRecords[k][2] + 1])
          /\ Strip(mod_texts[MatchRecords[k][2] + 1]) # <<>>

\* C6: every segment of the emitted stream has a non-empty text.
C6_NonEmptySegments ==
    \A k \in 1..Len(StreamSegments) : StreamSegments[k].text # <<>>

\* Every character of a token is whitespace, or none is.
OneClass(tok) ==
    \/ \A k \in 1..Len(tok) : IsSpace(tok[k])
    \/ \A k \in 1..Len(tok) : ~IsSpace(tok[k])

\* C7: the tokens concatenate to the text, each is a non-empty run of one
\* class, adjacent tokens are of different classes, and the empty text has
\* no token.
C7_Tokenize ==
    pc = "tokenized" =>
        /\ Concat(tokens) = text1
        /\ \A k \in 1..Len(tokens) : tokens[k] # <<>> /\ OneClass(tokens[k])
        /\ \A k \in 1..(Len(tokens) - 1) :
              IsSpace(tokens[k][1]) # IsSpace(tokens[k + 1][1])
        /\ text1 = <<>> => tokens = <<>>

C7_Witness ==
    /\ pc = "tokenized"
    /\ Len(tokens) >= 3
    /\ \E k \in 1..Len(tokens) : Len(tokens[k]) >= 2

\* C8: the score is 1.0 for identical texts, 1.0 when both texts are empty
\* after trimming, and 0.0 when exactly one is.
C8_SimilarityOfBlanks ==
    pc = "scored" =>
        /\ text1 = text2 => Eq(sim, One)
        /\ (Strip(text1) = <<>> /\ Strip(text2) = <<>>) => Eq(sim, One)
        /\ ((Strip(text1) = <<>>) # (Strip(text2) = <<>>)) => Eq(sim, Zero)

\* The original (side = 1) or modified (side = 2) indices of the records that
\* have one, in the order of the list.
RECURSIVE IndicesOf(_, _)
IndicesOf(recs, side) ==
    IF recs = <<>> THEN <<>>
    ELSE (IF Head(recs)[side] # -1 THEN <<Head(recs)[side]>> ELSE <<>>)
         \o IndicesOf(Tail(recs), side)

ValidRecord(rec) ==
    \/ rec[3] = "match" /\ rec[1] >= 0 /\ rec[2] >= 0
    \/ rec[3] = "insert" /\ rec[1] = -1 /\ rec[2] >= 0
    \/ rec[3] = "delete" /\ rec[1] >= 0 /\ rec[2] = -1

\* C9: every record is well formed, and the original indices of the list
\* are 0..m-1 in order, the modified indices 0..n-1 in order: each index
\* occurs once and both sequences increase.
C9_ValidAlignment ==
    pc = "aligned_only" =>
        /\ \A k \in 1..Len(alignments) : ValidRecord(alignments[k])
        /\ IndicesOf(alignments, 1) = [k \in 1..Len(orig_texts) |-> k - 1]
        /\ IndicesOf(alignments, 2) = [k \in 1..Len(mod_texts) |-> k - 1]

C9_Witness ==
    /\ pc = "aligned_only"
    /\ \E k \in 1..Len(alignments) : alignments[k][3] = "match"
    /\ \E k \in 1..Len(alignments) : alignments[k][3] = "insert"
    /\ \E k \in 1..Len(alignments) : alignments[k][3] = "delete"

PureInsertion ==
    /\ orig_texts = <<HelloWorld>>
    /\ mod_texts = <<HelloWorld, NewLine>>
    /\ orig_tables = <<>>
    /\ mod_tables = <<>>

\* C10: comparing ["Hello world."] with ["Hello world.", "New line."] emits
\* [equal("Hello world.")] then [insert("New line.")] and returns
\* insertions = 2, unchanged = 2, deletions = 0, moves = 0.
C10_PureInsertion ==
    (PureInsertion /\ pc = "done") =>
        /\ diff_results = <<Entry(<<Seg(HelloWorld, "equal")>>, FALSE),
                            Entry(<<Seg(NewLine, "insert")>>, FALSE)>>
        /\ result = [success |-> TRUE, insertions |-> 2, deletions |-> 0,
                     moves |-> 0, unchanged |-> 2]

C10_Witness == PureInsertion /\ pc = "done" /\ Len(diff_results) = 2

\* The inputs of the run are the given scenario.
Running(input) ==
    <<orig_texts, mod_texts, orig_tables, mod_tables>> = input

\* sub occurs in s as a run of consecutive characters.
Contains(s, sub) ==
    \E k \in 0..(Len(s) - Len(sub)) : Slice(s, k, k + Len(sub)) = sub

\* C11: comparing ["The price is $50."] with ["The price is $75."] emits
\* one annotated paragraph, a match, whose segments project to both texts;
\* $50 is in a delete segment, $75 in the insert segment that directly
\* follows it, and every other segment is of kind equal.
C11_WordEdit ==
    (Running(WordEditInput) /\ pc = "done") =>
        /\ alignments = <<<<0, 0, "match">>>>
        /\ Len(diff_results) = 1
        /\ Project(diff_results[1].segments, OrigKinds) = ThePrice50
        /\ Project(diff_results[1].segments, ModKinds) = ThePrice75
        /\ \E k \in 1..(Len(diff_results[1].segments) - 1) :
              /\ diff_results[1].segments[k].kind = "delete"
              /\ Contains(diff_results[1].segments[k].text, Dollar50)
              /\ diff_results[1].segments[k + 1].kind = "insert"
              /\ Contains(diff_results[1].segments[k + 1].text, Dollar75)
              /\ \A l \in 1..Len(diff_results[1].segments) :
                    l \notin {k, k + 1} => diff_results[1].segments[l].kind = "equal"

C11_Witness ==
    /\ Running(WordEditInput) /\ pc = "done"
    /\ result.insertions = 1 /\ result.deletions = 1

\* C12: comparing [Relocate, "Middle.", "End."] with ["Middle.", "End.",
\* Relocate] emits the first original paragraph as one move_source
\* segment, the two matched paragraphs as equal, and the last modified
\* paragraph as one move_dest segment; moves = 16, unchanged = 2,
\* insertions = deletions = 0.
C12_ParagraphMove ==
    (Running(ParagraphMoveInput) /\ pc = "done") =>
        /\ diff_results = <<Entry(<<Seg(Relocate, "move_source")>>, FALSE),
                            Entry(<<Seg(Middle, "equal")>>, FALSE),
                            Entry(<<Seg(End, "equal")>>, FALSE),
                            Entry(<<Seg(Relocate, "move_dest")>>, FALSE)>>
        /\ result = [success |-> TRUE, insertions |-> 0, deletions |-> 0,
                     moves |-> 16, unchanged |-> 2]

C12_Witness ==
    /\ Running(ParagraphMoveInput) /\ pc = "done"
    /\ para_moves = {<<0, 3>>}

\* C13: comparing ["Alpha beta gamma delta epsilon zeta."] with ["Delta
\* epsilon zeta alpha beta gamma."] yields one matched paragraph whose
\* segments contain a move_source and a move_dest segment, and moves > 0.
C13_WordMove ==
    (Running(WordMoveInput) /\ pc = "done") =>
        /\ alignments = <<<<0, 0, "match">>>>
        /\ Len(diff_results) = 1
        /\ CountKind(diff_results[1].segments, "move_source") > 0
        /\ CountKind(diff_results[1].segments, "move_dest") > 0
        /\ result.moves > 0

\* Every segment of a stream entry is of kind equal.
AllEqual(entry) ==
    \A k \in 1..Len(entry.segments) : entry.segments[k].kind = "equal"

\* C14: comparing the table [[Name, Role], [A, Eng]] with [[Name, Role],
\* [A, Eng], [B, PM]] emits three table rows: two matched rows with equal
\* segments only, then one whole-row insert segment for [B, PM].
C14_RowInsertion ==
    (Running(RowInsertionInput) /\ pc = "done") =>
        /\ Len(diff_results) = 3
        /\ \A k \in 1..3 : diff_results[k].is_table_row
        /\ AllEqual(diff_results[1]) /\ AllEqual(diff_results[2])
        /\ diff_results[3].segments = <<Seg(get_row_text(<<CellB, PM>>), "insert")>>

\* C15 as claimed: calculate_similarity(a, b) >= 1.0 only when a = b, so
\* that a paragraph threshold of 1.0 would match exactly equal texts only.
C15_ExactOnly ==
    pc = "scored" => (GE(sim, One) => text1 = text2)

\* The set of lower-cased words of a text.
LowerWords(text) == SetOf(Split(Lower(text)))

\* C15 amended: calculate_similarity(a, b) >= 1.0 exactly when a = b, or
\* when both texts are non-empty and have the same set of lower-cased
\* words (which includes two non-empty blank texts).
C15_SameWords ==
    pc = "scored" =>
        (GE(sim, One) <=>
            \/ text1 = text2
            \/ /\ text1 # <<>> /\ text2 # <<>>
               /\ LowerWords(text1) = LowerWords(text2))

C15_Witness ==
    /\ pc = "scored"
    /\ GE(sim, One)
    /\ text1 # text2
    /\ Lower(Strip(text1)) # Lower(Strip(text2))

\* s is t with zero or more elements removed.
RECURSIVE IsSubsequence(_, _)
IsSubsequence(s, t) ==
    IF s = <<>> THEN TRUE
    ELSE IF t = <<>> THEN FALSE
    ELSE IF Head(s) = Head(t) THEN IsSubsequence(Tail(s), Tail(t))
    ELSE IsSubsequence(s, Tail(t))

PairwiseDistinct(s) == \A k \in 1..Len(s) : \A l \in 1..Len(s) : s[k] = s[l] => k = l

\* C18: when the original list, of pairwise distinct paragraphs, is a
\* subsequence of the modified list, the alignment has no delete record,
\* every match record pairs identical texts, and the insert records are as
\* many as the added paragraphs.
C18_StableUnderAdditions ==
    (/\ pc = "aligned_only"
     /\ PairwiseDistinct(orig_texts)
     /\ IsSubsequence(orig_texts, mod_texts)
     /\ Len(mod_texts) > Len(orig_texts)) =>
        /\ \A k \in 1..Len(alignments) : alignments[k][3] # "delete"
        /\ \A k \in 1..Len(alignments) :
              alignments[k][3] = "match" =>
                  orig_texts[alignments[k][1] + 1] = mod_texts[alignments[k][2] + 1]
        /\ Cardinality({k \in 1..Len(alignments) : alignments[k][3] = "insert"})
              = Len(mod_texts) - Len(orig_texts)

----------------------------------------------------------------------------
(* C16 *)

\* Segment k of the list is of kind `kind` and has at least min_move_words words.
Eligible(segs, k, kind) ==
    segs[k].kind = kind /\ WordCount(segs[k].text) >= min_move_words

\* C16: with the move similarity threshold at 0.0 and the minimum move word
\* count at 1, the move detector leaves no delete segment and insert
\* segment of at least one word both unpaired, whatever their similarity.
C16_AllPairsMoved ==
    (pc = "moved" /\ move_similarity_threshold = Zero /\ min_move_words = 1) =>
        ~ \E i, j \in 1..Len(segments) :
              Eligible(segments, i, "delete") /\ Eligible(segments, j, "insert")

----------------------------------------------------------------------------
(* C17 *)

\* A path whose extension is neither .docx nor .pdf.
Unsupported(path) == path \notin {".docx", ".pdf"}

\* The messages of the exceptions the steps of the call raise when reached.
RaisedMessages ==
    {"Unsupported file type: " \o p :
        p \in {q \in {original_path, modified_path} : Unsupported(q)}
              \cup {q \in {output_path} : output_format = None /\ Unsupported(q)}}
    \cup {IOError : f \in {fault} \ {None}}

\* C17: a call of compare_documents in which a step raises (an unsupported
\* extension of the original, modified or output path, a failing
\* extraction or a failing generation of the output) returns a record with
\* success = False, the message of the exception as error and the four
\* counters at 0; a record with success = True is returned only when no
\* step raises, and it carries the counters of the completed steps.
C17_DocumentFailure ==
    pc = "done" =>
        /\ result.success \in BOOLEAN
        /\ RaisedMessages # {} =>
              /\ result.success = FALSE
              /\ result.error \in RaisedMessages
              /\ result.insertions = 0 /\ result.deletions = 0
              /\ result.moves = 0 /\ result.unchanged = 0
        /\ (Unsupported(original_path) /\ ~(output_format = None /\ Unsupported(output_path))) =>
              result = [success |-> FALSE, insertions |-> 0, deletions |-> 0,
                        moves |-> 0, unchanged |-> 0,
                        error |-> "Unsupported file type: " \o original_path]
        /\ result.success =>
              /\ RaisedMessages = {}
              /\ alignments = align_paragraphs(orig_texts, mod_texts)
              /\ result.insertions = stats.insertions /\ result.deletions = stats.deletions
              /\ result.moves = stats.moves /\ result.unchanged = stats.unchanged

\* The generation of the output fails after words have been counted.
C17_Witness ==
    /\ pc = "done"
    /\ fault = "output"
    /\ ~result.success
    /\ result.error = IOError
    /\ stats.insertions > 0
    /\ result.insertions = 0

----------------------------------------------------------------------------
(* C19 *)

\* The number of words of every segment.
WordCounts(segs) == [k \in 1..Len(segs) |-> WordCount(segs[k].text)]

\* The positions (from 1) of the candidates of kind `kind`: at least 3 words.
CandidatePositions(segs, words, kind) ==
    {k \in 1..Len(segs) : segs[k].kind = kind /\ words[k] >= MIN_MOVE_WORDS}

\* Deletion d1 is processed before deletion d2: more words, or as many and
\* earlier in the list.
ProcessedBefore(words, d1, d2) ==
    \/ words[d1] > words[d2]
    \/ words[d1] = words[d2] /\ d1 < d2

\* The similarity of the normalized texts of every deletion and insertion.
NormalizedSimilarity(segs, dels, ins) ==
    [d \in dels, i \in ins |->
        calculate_similarity(normalize_text_for_move(segs[d].text),
                             normalize_text_for_move(segs[i].text))]

\* The insertions deletion d can take under pairing M: not taken by a
\* deletion processed before d, and at similarity >= 0.85.
Available(words, ins, similarity, M, d) ==
    {i \in ins :
        /\ ~ \E p \in M : ProcessedBefore(words, p[1], d) /\ p[2] = i
        /\ GE(similarity[d, i], MOVE_SIMILARITY_THRESHOLD)}

\* i is the insertion of highest similarity with d among `avail`, the
\* earliest of them on ties.
MostSimilar(similarity, avail, d, i) ==
    /\ i \in avail
    /\ \A j \in avail :
          /\ GE(similarity[d, i], similarity[d, j])
          /\ Eq(similarity[d, i], similarity[d, j]) => i <= j

\* Deletion d is paired by M as the greedy pairing pairs it.
PairedGreedily(similarity, avail, M, d) ==
    IF avail = {} THEN ~ \E p \in M : p[1] = d
    ELSE \E p \in M : p[1] = d /\ MostSimilar(similarity, avail, d, p[2])

\* M, a set of pairs <<deletion, insertion>> of positions, is the greedy
\* pairing of the deletions dels and the insertions ins.
IsGreedyPairing(words, dels, ins, similarity, M) ==
    /\ \A p \in M : p[1] \in dels /\ p[2] \in ins
    /\ \A p, q \in M : (p[1] = q[1] \/ p[2] = q[2]) => p = q
    /\ \A d \in dels :
          PairedGreedily(similarity, Available(words, ins, similarity, M, d), M, d)

\* The pairs of the detector, as positions counted from 1.
DetectedPairs == {<<p[1] + 1, p[2] + 1>> : p \in WordMoves(given_segments)}

\* C19: the pairs detect_word_level_moves makes are exactly the greedy
\* pairing: candidates are the delete and insert segments of at least 3
\* words; deletions are processed in descending word count, equal counts
\* in list order; each takes, among the insertions not yet taken whose
\* normalized text is at similarity >= 0.85, the most similar one, the
\* earliest on ties, and stays unpaired when there is none; the segments
\* relabelled are those of the pairs.
C19_GreedyPairing ==
    pc = "detected" =>
        LET words == WordCounts(given_segments)
            dels == CandidatePositions(given_segments, words, "delete")
            ins == CandidatePositions(given_segments, words, "insert")
            similarity == NormalizedSimilarity(given_segments, dels, ins)
            M == DetectedPairs
        IN  /\ IsGreedyPairing(words, dels, ins, similarity, M)
            /\ \A k \in 1..Len(segments) :
                  /\ segments[k].kind = "move_source" <=> \E p \in M : p[1] = k
                  /\ segments[k].kind = "move_dest" <=> \E p \in M : p[2] = k

\* A longer deletion listed second is processed first and takes the
\* earlier of two insertions at the same similarity; the shorter deletion
\* takes the other one.
C19_Witness ==
    /\ pc = "detected"
    /\ LET words == WordCounts(given_segments)
           dels == CandidatePositions(given_segments, words, "delete")
           ins == CandidatePositions(given_segments, words, "insert")
           similarity == NormalizedSimilarity(given_segments, dels, ins)
       IN  \E d, e \in dels : \E i, j \in ins :
              /\ e < d /\ ProcessedBefore(words, d, e)
              /\ i < j
              /\ Eq(similarity[d, i], similarity[d, j])
              /\ GT(similarity[e, i], similarity[e, j])
              /\ DetectedPairs = {<<d, i>>, <<e, j>>}
              /\ segments[d].kind = "move_source" /\ segments[j].kind = "move_dest"

----------------------------------------------------------------------------
(* C20 *)

\* The positions whose kind the detector changed from `from` to `to`.
Relabelled(from, to) ==
    {k \in 1..Len(given_segments) :
        given_segments[k].kind = from /\ segments[k].kind = to}

\* The positions whose kind the detector changed.
Changed == {k \in 1..Len(given_segments) : segments[k].kind # given_segments[k].kind}

\* C20: detect_word_level_moves changes nothing but the kinds of paired
\* segments: the list it returns has the length, the texts and the order
\* of the list it is given; a kind changes only from delete to move_source
\* or from insert to move_dest, for as many deletes as inserts; equal
\* segments and segments of fewer than 3 words keep their kind; and the
\* list given is returned when no delete or no insert has 3 words.
C20_OnlyKindsOfPairs ==
    pc = "detected" =>
        /\ Len(segments) = Len(given_segments)
        /\ \A k \in 1..Len(given_segments) : segments[k].text = given_segments[k].text
        /\ Changed = Relabelled("delete", "move_source") \cup Relabelled("insert", "move_dest")
        /\ Cardinality(Relabelled("delete", "move_source"))
              = Cardinality(Relabelled("insert", "move_dest"))
        /\ \A k \in 1..Len(given_segments) :
              (given_segments[k].kind = "equal" \/ WordCount(given_segments[k].text) < 3)
                  => segments[k] = given_segments[k]
        /\ ((\A k \in 1..Len(given_segments) : ~Eligible(given_segments, k, "delete"))
            \/ (\A k \in 1..Len(given_segments) : ~Eligible(given_segments, k, "insert")))
              => segments = given_segments

\* A pair is relabelled next to a delete of two words and an equal
\* segment, which are kept.
C20_Witness ==
    /\ pc = "detected"
    /\ Relabelled("delete", "move_source") # {}
    /\ Relabelled("insert", "move_dest") # {}
    /\ \E k \in 1..Len(given_segments) :
          /\ given_segments[k].kind = "delete"
          /\ WordCount(given_segments[k].text) < 3
          /\ segments[k] = given_segments[k]
    /\ \E k \in 1..Len(given_segments) :
          given_segments[k].kind = "equal" /\ segments[k] = given_segments[k]

----------------------------------------------------------------------------
(* C21 *)

\* The opcodes of the matcher for the two texts.
TextOpcodes == get_opcodes(tokenize(text1), tokenize(text2))

\* The positions k at which a delete segment is immediately followed by an
\* insert segment.
DeleteThenInsert ==
    {k \in 1..(Len(segments) - 1) :
        segments[k].kind = "delete" /\ segments[k + 1].kind = "insert"}

\* C21: in the list diff_texts returns every segment has a non-empty text
\* and a kind among equal, delete and insert; the segments are in source
\* order (they spell the original and the modified text); every replaced
\* run is one delete segment immediately followed by one insert segment;
\* and no insert segment is immediately followed by a delete segment.
C21_SegmentShape ==
    pc = "diffed" =>
        /\ \A k \in 1..Len(segments) :
              /\ segments[k].text # <<>>
              /\ segments[k].kind \in {"equal", "delete", "insert"}
        /\ Project(segments, {"equal", "delete"}) = text1
        /\ Project(segments, {"equal", "insert"}) = text2
        /\ \A o \in 1..Len(TextOpcodes) :
              TextOpcodes[o][1] = "replace" =>
                  \E k \in DeleteThenInsert :
                      /\ segments[k].text =
                            Concat(Slice(tokenize(text1), TextOpcodes[o][2], TextOpcodes[o][3]))
                      /\ segments[k + 1].text =
                            Concat(Slice(tokenize(text2), TextOpcodes[o][4], TextOpcodes[o][5]))
        /\ Cardinality(DeleteThenInsert)
              = Cardinality({o \in 1..Len(TextOpcodes) : TextOpcodes[o][1] = "replace"})
        /\ \A k \in 1..(Len(segments) - 1) :
              ~(segments[k].kind = "insert" /\ segments[k + 1].kind = "delete")

\* A replaced run next to a lone insertion and an equal run.
C21_Witness ==
    /\ pc = "diffed"
    /\ DeleteThenInsert # {}
    /\ \E k \in 1..(Len(segments) - 1) :
          segments[k].kind = "equal" /\ segments[k + 1].kind = "insert"

----------------------------------------------------------------------------
(* C22 *)

\* The number of records among the first k that consume a paragraph of
\* side `side` (1 original, 2 modified): with the other side, the cell the
\* backtrack is at when it appends record k.
Consumed(recs, k, side) == Cardinality({l \in 1..k : recs[l][side] >= 0})

\* The backtrack appends record k at a cell (i, j) with i > 0, j > 0, a
\* dissimilar pair and lcs[i][j-1] = lcs[i-1][j].
AtTie(similar, lcs, i, j) ==
    /\ i > 0 /\ j > 0
    /\ ~similar[i, j]
    /\ lcs[i, j - 1] = lcs[i - 1, j]

\* C22: when no original paragraph is similar to a modified one,
\* align_paragraphs returns the delete records in original order and then
\* the insert records in modified order; and at every cell of the
\* backtrack with i > 0, j > 0, a dissimilar pair and
\* lcs[i][j-1] = lcs[i-1][j], the record appended is the insert of modified
\* paragraph j-1, so that the original paragraph i-1 is consumed later in
\* the backtrack.
C22_InsertOnTies ==
    pc = "aligned_only" =>
        LET m == Len(orig_texts)
            n == Len(mod_texts)
            similar == SimilarTable(orig_texts, mod_texts)
            lcs == LcsTable(similar, m, n)
        IN  /\ (\A i \in 1..m : \A j \in 1..n : ~similar[i, j]) =>
                  alignments = [k \in 1..(m + n) |->
                                   IF k <= m THEN <<k - 1, -1, "delete">>
                                   ELSE <<-1, k - m - 1, "insert">>]
            /\ \A k \in 1..Len(alignments) :
                  AtTie(similar, lcs, Consumed(alignments, k, 1), Consumed(alignments, k, 2)) =>
                      /\ alignments[k] = <<-1, Consumed(alignments, k, 2) - 1, "insert">>
                      /\ \E l \in 1..(k - 1) :
                            alignments[l][1] = Consumed(alignments, k, 1) - 1

\* The backtrack meets a tie between two cells that both hold a match.
C22_Witness ==
    /\ pc = "aligned_only"
    /\ LET similar == SimilarTable(orig_texts, mod_texts)
           lcs == LcsTable(similar, Len(orig_texts), Len(mod_texts))
       IN  \E k \in 1..Len(alignments) :
              /\ AtTie(similar, lcs, Consumed(alignments, k, 1), Consumed(alignments, k, 2))
              /\ lcs[Consumed(alignments, k, 1) - 1, Consumed(alignments, k, 2)] > 0
              /\ alignments[k][3] = "insert"

----------------------------------------------------------------------------
(* C23 *)

\* Both documents hold one table of one row, and the two rows are matched.
OneMatchedRow ==
    /\ Len(orig_tables) = 1 /\ Len(mod_tables) = 1
    /\ Len(orig_tables[1]) = 1 /\ Len(mod_tables[1]) = 1
    /\ compare_table_rows(orig_tables[1], mod_tables[1]) = <<<<0, 0, "match">>>>

\* The number of words of the cells of a row at the columns cols.
RECURSIVE WordsOfCells(_, _)
WordsOfCells(row, cols) ==
    IF cols = {} THEN 0
    ELSE LET c == CHOOSE d \in cols : TRUE
         IN  WordCount(row[c]) + WordsOfCells(row, cols \ {c})

\* Every cell of the row at a column of cols is a segment of kind `kind` of
\* the last entry of the stream.
CellsEmitted(row, cols, kind) ==
    \A c \in cols :
        \E k \in 1..Len(diff_results[Len(diff_results)].segments) :
            diff_results[Len(diff_results)].segments[k] = Seg(row[c], kind)

\* C23: for a matched row pair with different numbers of cells, each cell
\* at a column only the modified row has is emitted as an insert segment
\* and counted in insertions, and each cell at a column only the original
\* row has is emitted as a delete segment and counted in deletions.
C23_ColumnGainedOrLost ==
    (pc = "tables" /\ OneMatchedRow) =>
        LET orig_row == orig_tables[1][1]
            mod_row == mod_tables[1][1]
            gained == (Len(orig_row) + 1)..Len(mod_row)
            lost == (Len(mod_row) + 1)..Len(orig_row)
        IN  /\ CellsEmitted(mod_row, gained, "insert")
            /\ stats.insertions >= WordsOfCells(mod_row, gained)
            /\ CellsEmitted(orig_row, lost, "delete")
            /\ stats.deletions >= WordsOfCells(orig_row, lost)

----------------------------------------------------------------------------
(* C24 *)

\* The try statement at hand looks at a region whose paragraph list is
\* empty on the original or on the modified side.
EmptyOnASide ==
    /\ pc = "full_regions"
    /\ section_idx < SectionCount
    /\ (OrigRegion.paragraphs = <<>> \/ OutRegion.paragraphs = <<>>)

\* C24: compare_with_full_formatting runs the paragraph pipeline on a
\* header or footer region of section s only when s is below the smaller
\* number of sections and both documents have a non-empty paragraph list
\* for the region: a region with an empty list on either side prints no
\* message of a comparison and leaves the counters as they are.
C24_EmptySideSkipped ==
    [][EmptyOnASide => (stats' = stats /\ (printed' = printed \/ RegionFailure))]_vars

----------------------------------------------------------------------------
(* C25 *)

\* Region `name` of section s (0-based) can be compared: no access raises
\* and one of the two paragraph lists is not empty.
ComparableAt(s, name) ==
    /\ ~AccessRaises(RegionOf(orig_sections[s + 1], name), RegionOf(mod_sections[s + 1], name))
    /\ Compared(RegionOf(orig_sections[s + 1], name), RegionOf(mod_sections[s + 1], name))

RaisesAt(s, name) ==
    AccessRaises(RegionOf(orig_sections[s + 1], name), RegionOf(mod_sections[s + 1], name))

\* The comparison of region `name` of section s has been started.
ComparedAt(s, name) ==
    \E k \in 1..Len(printed) : printed[k] = Message("Comparing", name, s)

AllRegions == {"header", "first_page_header", "footer", "first_page_footer"}

\* C25: a failure in a header or footer region is swallowed: the call ends
\* with an exception only when the opening of the documents or the saving
\* of the output fails, and a call that returns has compared every region
\* that can be compared, of every section both documents have, whatever
\* regions failed before it, and returns the counters.
C25_RegionFailuresSwallowed ==
    /\ (pc = "full_raised" => fault # None)
    /\ (pc = "full_done" =>
           /\ result = stats
           /\ section_idx = SectionCount
           /\ \A s \in 0..(SectionCount - 1), name \in AllRegions :
                 ComparableAt(s, name) => ComparedAt(s, name))

\* A call has returned although the header of the first section raised, and
\* has compared the footer of that section and the header of the next.
C25_Witness ==
    /\ pc = "full_done"
    /\ SectionCount = 2
    /\ RaisesAt(0, "header") /\ RaisesAt(0, "first_page_header")
    /\ ComparedAt(0, "footer") /\ ComparedAt(1, "header")
    /\ result.insertions > 0

----------------------------------------------------------------------------
(* C28 *)

\* The counters compare_documents reports for the same paragraphs and tables.
DocumentStatsOf(temps, otab, mtab) ==
    TablesFrom(otab, mtab, 0,
               EmitFrom(temps, ParaMoves(temps), 0,
                        [results |-> <<>>, stats |-> ZeroStats])).stats

DocumentStats ==
    DocumentStatsOf(FirstPassFrom(orig_texts, mod_texts,
                                  align_paragraphs(orig_texts, mod_texts)),
                    orig_tables, mod_tables)

\* C28: for two documents of body paragraphs and tables without sections,
\* compare_with_full_formatting returns the insertions, deletions, moves and
\* unchanged counts that compare_documents reports for them.
C28_SameStatistics ==
    (pc = "full_done" /\ orig_sections = <<>> /\ mod_sections = <<>>)
        => result = DocumentStats

----------------------------------------------------------------------------
(* C26 *)

\* The annotated paragraph is the one of the alignment record: a match
\* carrying the modified paragraph, the inserted paragraph as an insert or
\* a move_dest, or the deleted paragraph as a delete or a move_source.
AnnotatedAs(entry, rec) ==
    IF rec[3] = "match"
    THEN Project(entry.segments, ModKinds) = mod_texts[rec[2] + 1]
    ELSE IF rec[3] = "insert"
    THEN \E kind \in {"insert", "move_dest"} :
            entry.segments = <<Seg(mod_texts[rec[2] + 1], kind)>>
    ELSE \E kind \in {"delete", "move_source"} :
            entry.segments = <<Seg(orig_texts[rec[1] + 1], kind)>>

\* C26: the body part of the stream of compare_documents has exactly one
\* annotated paragraph per alignment record, in the order of the alignment:
\* every modified paragraph once, as a match, an insert or a move_dest,
\* and every paragraph only the original has once, as a delete or a
\* move_source, where it was deleted from.
C26_OnePerRecord ==
    pc = "body" =>
        /\ Len(diff_results) = Len(alignments)
        /\ \A k \in 1..Len(alignments) : AnnotatedAs(diff_results[k], alignments[k])

----------------------------------------------------------------------------
(* C27 *)

\* Element a (from 1) of a set of numbers in increasing order.
Nth(S, a) == CHOOSE x \in S : Cardinality({y \in S : y < x}) = a - 1

\* There is a pairing of k original with k modified paragraphs that keeps
\* the order on both sides and pairs similar paragraphs only.
HasPairing(similar, m, n, k) ==
    \E rows \in SUBSET (1..m) : \E cols \in SUBSET (1..n) :
        /\ Cardinality(rows) = k
        /\ Cardinality(cols) = k
        /\ \A a \in 1..k : similar[Nth(rows, a), Nth(cols, a)]

\* The size of the largest such pairing.
MaxPairing(similar, m, n) ==
    CHOOSE k \in 0..m : HasPairing(similar, m, n, k)
                        /\ \A l \in (k + 1)..m : ~HasPairing(similar, m, n, l)

\* C27: the number of match records align_paragraphs returns is
\* lcs[m][n], and lcs[m][n] is the size of the largest pairing of original
\* with modified paragraphs that keeps the order, is one-to-one and pairs
\* paragraphs of similarity at least 0.4 only, although similarity is not
\* transitive.
C27_MaximalMatching ==
    pc = "aligned_only" =>
        LET m == Len(orig_texts)
            n == Len(mod_texts)
            similar == SimilarTable(orig_texts, mod_texts)
        IN  /\ Len(MatchRecords) = LcsTable(similar, m, n)[m, n]
            /\ LcsTable(similar, m, n)[m, n] = MaxPairing(similar, m, n)

\* An original paragraph is similar to two modified paragraphs that are not
\* similar to each other, and two pairs are matched.
C27_Witness ==
    /\ pc = "aligned_only"
    /\ Len(MatchRecords) = 2
    /\ \E i \in 1..Len(orig_texts) : \E j, l \in 1..Len(mod_texts) :
          /\ GE(calculate_similarity(orig_texts[i], mod_texts[j]), PARAGRAPH_SIMILARITY_THRESHOLD)
          /\ GE(calculate_similarity(orig_texts[i], mod_texts[l]), PARAGRAPH_SIMILARITY_THRESHOLD)
          /\ ~GE(calculate_similarity(mod_texts[j], mod_texts[l]), PARAGRAPH_SIMILARITY_THRESHOLD)

----------------------------------------------------------------------------
(* C30 *)

\* C30: calculate_similarity is symmetric: the score of text1 against
\* text2 is the score of text2 against text1.
C30_Symmetric ==
    pc = "scored" => Eq(sim, calculate_similarity(text2, text1))

----------------------------------------------------------------------------
(* C29 *)

\* handle_error has run with the message: it has shown it.
Handled(msg) ==
    \E k \in 1..Len(shown) : shown[k] = "Comparison failed:\n" \o msg

\* compare_with_full_formatting has raised msg in thread t, which has not
\* scheduled the callback yet.
RaisedIn(t, msg) ==
    Len(threads) >= t /\ threads[t] = Thread("caught", msg)

\* C29: whenever compare_with_full_formatting raises in the background
\* thread, handle_error eventually runs on the main thread with the message
\* of the exception and the Compare button is enabled again, however the
\* steps of the thread and of the event loop interleave.
C29_ErrorHandled ==
    \A t \in 1..MaxClicks : \A msg \in ErrorMessages :
        RaisedIn(t, msg) ~> (Handled(msg) /\ compare_btn = "normal")

====
